---- MODULE Spec2Model ----
(***************************************************************************)
(* FundVal Live client: the Account Data Fetcher (fetchData, its retry     *)
(* timers and the 15 s positions poll), the App component's watchlist and  *)
(* preference synchronisation, and the trade forms' client validation.     *)
(*                                                                         *)
(* Every React handler is one action: the state updates it makes, the      *)
(* render they cause and the effects that render runs (useEffect bodies    *)
(* whose dependencies changed) happen in the same step.  Every await is a  *)
(* message in flight that a later action resolves or rejects.              *)
(***************************************************************************)
EXTENDS Integers, Sequences, FiniteSets, TLC

(***************************************************************************)
(* Bounds of the model.                                                    *)
(***************************************************************************)
MaxAccount == 2
MaxReq == 4
MaxFund == 2
MaxStored == 2
MaxSnap == 1
MaxPush == 4
MaxPending == 1
MaxTicks == 1
MaxSort == 2
MaxUnits == 1
MaxTrades == 1
MaxRows == 3
MaxLedger == 3

(* The number of debounce timers a run sets.                               *)
MaxSearchTimers == 3

(* setTimeout(..., 300) of the search effect, in units of 100 ms.          *)
DebounceUnits == 3

(* The AI analysis requests in flight at once, and the reports the server  *)
(* answers with.                                                           *)
MaxAnalyses == 3

MaxReport == 3

(* setCountdown(3) of handleAnalyze.                                       *)
CooldownSeconds == 3

(***************************************************************************)
(* Values.                                                                 *)
(***************************************************************************)
(* null / undefined in a numeric slot, and the click event object that a   *)
(* button passes to a handler bound directly to onClick.                   *)
NULL == 0 - 1
EVT == 0 - 2
AGGREGATE == 0
NoError == "null"
LoadFailed == "load failed"
Accounts == 0..MaxAccount

VARIABLES
  currentAccount,
  apiModule,
  data,
  loading,
  error,
  inflight,
  timers,
  pollAccount,
  nextSeq,
  chains,
  responses,
  lastOk,
  maxOk,
  watchlist,
  preferencesLoaded,
  loadPc,
  currentView,
  detailFundId,
  syncLoading,
  defaultAccountId,
  remote,
  localStore,
  pushes,
  nIssued,
  lastWl,
  migrated,
  details,
  ticks,
  interval,
  sortOption,
  sortLoaded,
  sortPc,
  alertBit,
  addModalPos,
  addAmount,
  addSubmitting,
  reduceModalPos,
  reduceShares,
  reduceSubmitting,
  tradeCalls,
  lastTrade,
  modalOpen,
  formData,
  submitting,
  navUpdating,
  positionChanges,
  answer,
  notice,
  ended,
  displayPositions,
  sortedPositions,
  ledger,
  accounts,
  searchQuery,
  searchResults,
  showSearchResults,
  searchLoading,
  searchTimeoutRef,
  searchTimers,
  searches,
  queryAge,
  canAnalyze,
  countdown,
  countdownTimers,
  analyses,
  cooldownAge,
  analysis,
  analysisLoading,
  analysisError

fetchVars == <<apiModule, data, loading, error, inflight, timers, pollAccount,
               nextSeq, chains, responses, lastOk, maxOk>>

watchVars == <<watchlist, currentView, detailFundId, syncLoading, details, ticks,
               interval, alertBit>>

prefVars == <<preferencesLoaded, loadPc, defaultAccountId, remote, localStore, pushes,
              nIssued, lastWl, migrated>>

sortVars == <<sortOption, sortLoaded, sortPc>>

appVars == <<watchVars, prefVars, sortVars>>

formVars == <<modalOpen, formData, submitting, navUpdating, positionChanges>>

stepVars == <<answer, notice, ended>>

searchVars == <<searchQuery, searchResults, showSearchResults, searchLoading,
                searchTimeoutRef, searchTimers, searches, queryAge>>

analyzeVars == <<canAnalyze, countdown, countdownTimers, analyses, cooldownAge, analysis,
                 analysisLoading, analysisError>>

viewVars == <<displayPositions, sortedPositions, ledger, accounts, searchVars, analyzeVars>>

accountPageVars == <<addModalPos, addAmount, addSubmitting, reduceModalPos, reduceShares,
                     reduceSubmitting, tradeCalls, lastTrade, formVars, stepVars,
                     displayPositions, sortedPositions, ledger, accounts>>

tradeVars == <<addModalPos, addAmount, addSubmitting, reduceModalPos, reduceShares,
               reduceSubmitting, tradeCalls, lastTrade, formVars, stepVars, viewVars>>

vars == <<currentAccount, fetchVars, appVars, tradeVars>>

(***************************************************************************)
(* services/api: the request getAccountPositions issues.                   *)
(***************************************************************************)
getAccountPositionsV1(accountId) ==
  [path |-> "/account/positions",
   account_id |-> IF accountId = NULL THEN 1 ELSE accountId]

getAccountPositions(accountId) ==
  [path |-> "/positions/aggregate", account_id |-> NULL]

(* The two revisions of services/api in the repository; a build bundles one. *)
ApiModules == {"v1", "v2"}

IssueGet(module, accountId) ==
  IF module = "v1" THEN getAccountPositionsV1(accountId)
  ELSE getAccountPositions(accountId)

(* What the server answers to a request: the positions of the scope the    *)
(* request names, stamped with the request it answers.                     *)
Payload(r) ==
  [scope |-> IF r.http.path = "/positions/aggregate" THEN AGGREGATE
             ELSE r.http.account_id,
   seq |-> r.seq]

EmptyData == [scope |-> NULL, seq |-> 0]

(***************************************************************************)
(* App.jsx: funds, fund details and the stored form of a watchlist.        *)
(***************************************************************************)
Funds == 1..MaxFund
Snaps == 1..MaxSnap

(* JSON text: JSON.stringify / JSON.parse, a missing item, and text that   *)
(* JSON.parse rejects.                                                     *)
Absent == [kind |-> "absent", list |-> <<>>]
Corrupt == [kind |-> "corrupt", list |-> <<>>]
JSONstringify(list) == [kind |-> "json", list |-> list]
JSONparses(text) == text.kind = "json"
JSONparse(text) == text.list

(* prefs.watchlist || '[]' *)
OrEmptyArray(text) == IF text.kind = "absent" THEN JSONstringify(<<>>) ELSE text

(* A fund as an earlier session stored it: no fresh detail yet.            *)
StoredFund(id, first) == [id |-> id, trusted |-> first, snap |-> 0]

RECURSIVE SeqsUpTo(_, _)
SeqsUpTo(S, n) ==
  IF n = 0 THEN {<<>>}
  ELSE LET shorter == SeqsUpTo(S, n - 1)
       IN shorter \cup {Append(q, x) : q \in {t \in shorter : Len(t) = n - 1}, x \in S}

StoredLists ==
  {[i \in 1..Len(ids) |-> StoredFund(ids[i], i = 1)] : ids \in SeqsUpTo(Funds, MaxStored)}

Ids(list) == {list[i].id : i \in 1..Len(list)}

(* parsed.filter(fund => seen.has(fund.id) ? false : (seen.add(fund.id), true)) *)
RECURSIVE DedupKeepLast(_, _)
DedupKeepLast(list, seen) ==
  IF list = <<>> THEN <<>>
  ELSE LET last == list[Len(list)]
           front == SubSeq(list, 1, Len(list) - 1)
       IN IF last.id \in seen THEN DedupKeepLast(front, seen)
          ELSE Append(DedupKeepLast(front, seen \cup {last.id}), last)

RECURSIVE Dedup(_, _)
Dedup(list, seen) ==
  IF list = <<>> THEN <<>>
  ELSE IF Head(list).id \in seen THEN Dedup(Tail(list), seen)
       ELSE <<Head(list)>> \o Dedup(Tail(list), seen \cup {Head(list).id})

(* getFundDetail(id) resolved: the server's detail of fund id.             *)
Detail(id, snap) == [id |-> id, snap |-> snap]

(* { ...fund, ...detail } *)
Merge(fund, detail) == [id |-> detail.id, trusted |-> fund.trusted, snap |-> detail.snap]

(* { ...fund, ...detail, trusted: true } and { ...detail, trusted: true } *)
NewFund(detail) == [id |-> detail.id, trusted |-> TRUE, snap |-> detail.snap]

(* setWatchlist(prev => prev.find(f => f.id === newFund.id) ? prev : [...prev, newFund]) *)
InsertAlways(prev, newFund) == Append(prev, newFund)

InsertIfAbsent(prev, newFund) ==
  IF \E i \in 1..Len(prev) : prev[i].id = newFund.id THEN prev ELSE Append(prev, newFund)

(* prev.filter(f => f.id !== id) *)
RemoveId(prev, id) == SelectSeq(prev, LAMBDA f : f.id # id)

(* The polling effect run again without its cleanup: the intervals armed   *)
(* by earlier runs stay armed.                                             *)
SetIntervalNoCleanup(armed, list) ==
  IF Len(list) = 0 THEN armed ELSE Append(armed, [list |-> list])

(* The polling effect, deps [watchlist]: the cleanup of the previous run    *)
(* clears the interval it armed (armed: the intervals armed so far); then   *)
(* no interval for an empty watchlist, else one whose tick closes over the  *)
(* list of the render that armed it.                                        *)
SetInterval(armed, list) ==
  IF Len(list) = 0 THEN <<>> ELSE <<[list |-> list]>>

(* The positions polling effect of the Account page, deps [isActive,       *)
(* currentAccount]: the cleanup clears the interval of the previous run;   *)
(* then none unless the page is active, else one that polls the account of *)
(* the render that armed it.                                               *)
SetPollInterval(armed, isActive, account) ==
  IF ~isActive THEN <<>> ELSE <<account>>

(* Truthiness of a number-or-null. *)
Truthy(x) == x # NULL /\ x # 0

(* The App before anything is mounted (used by specifications that leave   *)
(* the App alone).                                                         *)
AppIdleWith(sort) ==
  /\ watchlist = <<>>
  /\ preferencesLoaded = FALSE
  /\ loadPc = [at |-> "idle", acct |-> NULL]
  /\ currentView = "account"
  /\ detailFundId = NULL
  /\ syncLoading = FALSE
  /\ defaultAccountId = NULL
  /\ remote = [watchlist |-> Absent, currentAccount |-> NULL, sortOption |-> NULL]
  /\ localStore = [watchlist |-> Absent, account |-> NULL, sort |-> NULL]
  /\ pushes = {}
  /\ nIssued = 0
  /\ lastWl = [id |-> 0, outcome |-> "none"]
  /\ migrated = FALSE
  /\ details = {}
  /\ ticks = {}
  /\ interval = <<>>
  /\ sortOption = sort
  /\ sortLoaded = FALSE
  /\ sortPc = "idle"
  /\ alertBit = FALSE

(* useState(SORT_OPTIONS[0]) *)
AppIdle == AppIdleWith(1)

(***************************************************************************)
(* App.jsx: updatePreferences calls and the render effects.                *)
(***************************************************************************)
WlCall(text, awaited) ==
  [field |-> "watchlist", wl |-> text, acct |-> NULL, sort |-> NULL, awaited |-> awaited]

AcctCall(acct, awaited) ==
  [field |-> "currentAccount", wl |-> Absent, acct |-> acct, sort |-> NULL, awaited |-> awaited]

SortCall(sort, awaited) ==
  [field |-> "sortOption", wl |-> Absent, acct |-> NULL, sort |-> sort, awaited |-> awaited]

WlIndexes(calls) == {i \in 1..Len(calls) : calls[i].field = "watchlist"}

Max(S) == CHOOSE x \in S : \A y \in S : y <= x

(* api.post('/preferences', data) for each call, in order; base and lw are *)
(* the requests in flight and the last watchlist push once the step has    *)
(* settled the request it awaited, if any.                                 *)
IssueFrom(base, lw, calls) ==
  /\ nIssued + Len(calls) <= MaxPush
  /\ pushes' = base \cup
       {[id |-> nIssued + i, field |-> calls[i].field, wl |-> calls[i].wl,
         acct |-> calls[i].acct, sort |-> calls[i].sort, awaited |-> calls[i].awaited]
          : i \in 1..Len(calls)}
  /\ nIssued' = nIssued + Len(calls)
  /\ lastWl' = IF WlIndexes(calls) = {} THEN lw
               ELSE [id |-> nIssued + Max(WlIndexes(calls)), outcome |-> "pending"]

Issue(calls) == IssueFrom(pushes, lastWl, calls)

Settled(p, outcome) ==
  IF p.id = lastWl.id THEN [lastWl EXCEPT !.outcome = outcome] ELSE lastWl

(* The syncWatchlist effect, with the watchlist pushed as it was before    *)
(* the change.                                                             *)
SyncWatchlistStale(wlRefChanged, wl2, loaded2) ==
  IF loaded2 /\ (wlRefChanged \/ ~preferencesLoaded)
  THEN <<WlCall(JSONstringify(watchlist), FALSE)>> ELSE <<>>

(* The syncWatchlist effect, deps [watchlist, preferencesLoaded].          *)
SyncWatchlist(wlRefChanged, wl2, loaded2) ==
  IF loaded2 /\ (wlRefChanged \/ ~preferencesLoaded)
  THEN <<WlCall(JSONstringify(wl2), FALSE)>> ELSE <<>>

(* The syncAccount effect without its preferencesLoaded guard.             *)
SyncAccountUnguarded(acct2, loaded2) ==
  IF acct2 # currentAccount \/ (loaded2 /\ ~preferencesLoaded)
  THEN <<AcctCall(acct2, FALSE)>> ELSE <<>>

(* The syncAccount effect, deps [currentAccount, preferencesLoaded].       *)
SyncAccount(acct2, loaded2) ==
  IF loaded2 /\ (acct2 # currentAccount \/ ~preferencesLoaded)
  THEN <<AcctCall(acct2, FALSE)>> ELSE <<>>

(* One render of AppContent after a handler or continuation: the state it  *)
(* set, the calls it issued itself (before), then the effects in source    *)
(* order.  wlRefChanged: setWatchlist was given a new array.                *)
Render(wlRefChanged, wl2, acct2, loaded2, before) ==
  /\ watchlist' = wl2
  /\ currentAccount' = acct2
  /\ preferencesLoaded' = loaded2
  /\ interval' = IF wlRefChanged THEN SetInterval(interval, wl2) ELSE interval
  /\ Issue(before \o SyncWatchlist(wlRefChanged, wl2, loaded2) \o SyncAccount(acct2, loaded2))

(* The server stores what a preferences POST carries.                      *)
Apply(p) ==
  CASE p.field = "watchlist" -> [remote EXCEPT !.watchlist = p.wl]
    [] p.field = "currentAccount" -> [remote EXCEPT !.currentAccount = p.acct]
    [] OTHER -> [remote EXCEPT !.sortOption = p.sort]

Settle(p, outcome) ==
  /\ pushes' = pushes \ {p}
  /\ lastWl' = Settled(p, outcome)

(* syncWatchlist / syncAccount / syncSortOption: the POST succeeded.       *)
PushOk(p) ==
  /\ p \in pushes /\ ~p.awaited
  /\ remote' = Apply(p)
  /\ Settle(p, "ok")
  /\ UNCHANGED <<currentAccount, fetchVars, tradeVars, watchVars, sortVars, preferencesLoaded,
                 loadPc, defaultAccountId, localStore, nIssued, migrated>>

(* The POST failed: console.error and nothing else.                        *)
PushFail(p) ==
  /\ p \in pushes /\ ~p.awaited
  /\ Settle(p, "fail")
  /\ UNCHANGED <<currentAccount, fetchVars, tradeVars, watchVars, sortVars, preferencesLoaded,
                 loadPc, defaultAccountId, remote, localStore, nIssued, migrated>>

(***************************************************************************)
(* App.jsx: loadPreferences.                                               *)
(***************************************************************************)
(* getPreferences never rejects: on failure it answers with defaults.      *)
DefaultPrefs == [watchlist |-> JSONstringify(<<>>), currentAccount |-> 1, sortOption |-> NULL]

getPreferences(ok) == IF ok THEN remote ELSE DefaultPrefs

At(pc) == [at |-> pc, acct |-> NULL]

(* "Set current account" to the end of the try block.                      *)
AccountPart(wlRefChanged, wl2, pAcct) ==
  IF Truthy(pAcct) /\ pAcct # 1
  THEN /\ Render(wlRefChanged, wl2, pAcct, TRUE, <<>>)
       /\ loadPc' = At("done")
  ELSE IF Truthy(defaultAccountId)
  THEN /\ Render(wlRefChanged, wl2, defaultAccountId, TRUE, <<>>)
       /\ loadPc' = At("done")
  ELSE IF localStore.account # NULL
  THEN /\ Render(wlRefChanged, wl2, localStore.account, FALSE,
                 <<AcctCall(localStore.account, TRUE)>>)
       /\ loadPc' = At("migrateAcc")
  ELSE /\ Render(wlRefChanged, wl2, 1, TRUE, <<>>)
       /\ loadPc' = At("done")

(* The catch block: fall back to localStorage.                             *)
Fallback ==
  LET saved == localStore.watchlist
      threw == saved.kind = "corrupt"
      wlSet == saved.kind = "json"
      wl2 == IF wlSet THEN Dedup(JSONparse(saved), {}) ELSE watchlist
      acct2 == IF threw THEN currentAccount
               ELSE IF localStore.account # NULL THEN localStore.account
               ELSE IF Truthy(defaultAccountId) THEN defaultAccountId
               ELSE currentAccount
  IN /\ Render(wlSet, wl2, acct2, TRUE, <<>>)
     /\ loadPc' = At("done")

(* await getPreferences() resolves: what loadPreferences and the effects   *)
(* of the App do then.                                                     *)
LoadPreferencesStep(ok) ==
  /\ loadPc.at = "get"
  /\ LET prefs == getPreferences(ok)
         text == OrEmptyArray(prefs.watchlist)
         saved == localStore.watchlist
     IN IF ~JSONparses(text)
        THEN /\ Fallback
             /\ migrated' = migrated
        ELSE IF JSONparse(text) # <<>>
        THEN /\ AccountPart(TRUE, Dedup(JSONparse(text), {}), prefs.currentAccount)
             /\ migrated' = migrated
        ELSE IF saved.kind = "absent"
        THEN /\ AccountPart(TRUE, <<>>, prefs.currentAccount)
             /\ migrated' = migrated
        ELSE IF ~JSONparses(saved)
        THEN /\ AccountPart(FALSE, watchlist, prefs.currentAccount)
             /\ migrated' = migrated
        ELSE /\ Render(TRUE, Dedup(JSONparse(saved), {}), currentAccount, FALSE,
                       <<WlCall(saved, TRUE)>>)
             /\ loadPc' = [at |-> "migrateWl", acct |-> prefs.currentAccount]
             /\ migrated' = TRUE
  /\ UNCHANGED <<tradeVars, sortVars, currentView, detailFundId, syncLoading, details,
                 ticks, alertBit, defaultAccountId, remote, localStore>>

(* await getPreferences() resolves, the Account page's fetcher left alone. *)
LoadPreferences(ok) ==
  /\ LoadPreferencesStep(ok)
  /\ UNCHANGED fetchVars

AwaitedPush(field) == {p \in pushes : p.awaited /\ p.field = field}

(* await updatePreferences({ watchlist: savedWatchlist }) settles; a        *)
(* rejection is caught by the inner catch and the function goes on.         *)
MigrateWatchlistDone(ok) ==
  /\ loadPc.at = "migrateWl"
  /\ \E p \in AwaitedPush("watchlist") :
       /\ remote' = IF ok THEN Apply(p) ELSE remote
       /\ LET pAcct == loadPc.acct
              toMigrate == ~(Truthy(pAcct) /\ pAcct # 1) /\ ~Truthy(defaultAccountId)
                           /\ localStore.account # NULL
              acct2 == IF Truthy(pAcct) /\ pAcct # 1 THEN pAcct
                       ELSE IF Truthy(defaultAccountId) THEN defaultAccountId
                       ELSE IF localStore.account # NULL THEN localStore.account
                       ELSE 1
              loaded2 == ~toMigrate
          IN /\ IssueFrom(pushes \ {p}, Settled(p, IF ok THEN "ok" ELSE "fail"),
                          (IF toMigrate THEN <<AcctCall(acct2, TRUE)>> ELSE <<>>)
                          \o SyncWatchlist(FALSE, watchlist, loaded2)
                          \o SyncAccount(acct2, loaded2))
             /\ currentAccount' = acct2
             /\ preferencesLoaded' = loaded2
             /\ loadPc' = IF toMigrate THEN At("migrateAcc") ELSE At("done")
  /\ UNCHANGED <<fetchVars, tradeVars, sortVars, watchVars, defaultAccountId, localStore, migrated>>

(* await updatePreferences({ currentAccount: accountId }) settles; a        *)
(* rejection reaches the outer catch.                                       *)
MigrateAccountDone(ok) ==
  /\ loadPc.at = "migrateAcc"
  /\ \E p \in AwaitedPush("currentAccount") :
       /\ remote' = IF ok THEN Apply(p) ELSE remote
       /\ LET saved == localStore.watchlist
              wlSet == ~ok /\ saved.kind = "json"
              wl2 == IF wlSet THEN Dedup(JSONparse(saved), {}) ELSE watchlist
          IN /\ IssueFrom(pushes \ {p}, lastWl,
                          SyncWatchlist(wlSet, wl2, TRUE) \o SyncAccount(currentAccount, TRUE))
             /\ watchlist' = wl2
             /\ interval' = IF wlSet THEN SetInterval(interval, wl2) ELSE interval
  /\ preferencesLoaded' = TRUE
  /\ loadPc' = At("done")
  /\ UNCHANGED <<currentAccount, fetchVars, tradeVars, sortVars, currentView, detailFundId,
                 syncLoading, details, ticks, alertBit, defaultAccountId,
                 localStore, migrated>>

(***************************************************************************)
(* usePositions: the sort option, loaded and synchronised by the hook the  *)
(* Account page mounts.  An option is named by its index in SORT_OPTIONS;  *)
(* its stored form is the JSON text of that option.                        *)
(***************************************************************************)
SortOptions == 1..MaxSort

(* The syncSortOption effect, deps [sortOption, sortLoaded].               *)
SyncSortOption(changed, sort2, loaded2) ==
  IF loaded2 /\ (changed \/ ~sortLoaded) THEN <<SortCall(sort2, FALSE)>> ELSE <<>>

(* await getPreferences() resolves in loadSortPreference.                  *)
LoadSortPreference(ok) ==
  /\ sortPc = "get"
  /\ LET prefs == getPreferences(ok)
     IN IF prefs.sortOption # NULL
        THEN /\ sortOption' = prefs.sortOption
             /\ sortLoaded' = TRUE
             /\ sortPc' = "done"
             /\ Issue(SyncSortOption(TRUE, prefs.sortOption, TRUE))
        ELSE IF localStore.sort # NULL
        THEN /\ sortOption' = localStore.sort
             /\ sortLoaded' = FALSE
             /\ sortPc' = "migrate"
             /\ Issue(<<SortCall(localStore.sort, TRUE)>>)
        ELSE /\ sortOption' = sortOption
             /\ sortLoaded' = TRUE
             /\ sortPc' = "done"
             /\ Issue(SyncSortOption(FALSE, sortOption, TRUE))
  /\ UNCHANGED <<currentAccount, fetchVars, tradeVars, watchVars, preferencesLoaded, loadPc,
                 defaultAccountId, remote, localStore, migrated>>

(* await updatePreferences({ sortOption: saved }) settles; a rejection is  *)
(* caught and logged; then setSortLoaded(true).                            *)
SortMigrateDone(ok) ==
  /\ sortPc = "migrate"
  /\ \E p \in AwaitedPush("sortOption") :
       /\ remote' = IF ok THEN Apply(p) ELSE remote
       /\ IssueFrom(pushes \ {p}, lastWl, SyncSortOption(FALSE, sortOption, TRUE))
  /\ sortLoaded' = TRUE
  /\ sortPc' = "done"
  /\ UNCHANGED <<currentAccount, fetchVars, tradeVars, watchVars, sortOption, preferencesLoaded,
                 loadPc, defaultAccountId, localStore, migrated>>

(* setSortOption(SORT_OPTIONS[key]): the sort menu of the Account page.    *)
SetSortOption(option) ==
  /\ currentView = "account"
  /\ option # sortOption
  /\ sortOption' = option
  /\ Issue(SyncSortOption(TRUE, option, sortLoaded))
  /\ UNCHANGED <<currentAccount, fetchVars, tradeVars, watchVars, sortLoaded, sortPc,
                 preferencesLoaded, loadPc, defaultAccountId, remote, localStore, migrated>>

(* The Account page, and with it the hook, is mounted exactly while the    *)
(* view is 'account'.  Mounting starts loadSortPreference; unmounting      *)
(* drops the hook's state, and what a continuation of the old instance     *)
(* would set is lost (its request, if any, stays in flight).               *)
SortAfterView(view2) ==
  IF view2 = "account" /\ currentView # "account"
  THEN /\ sortOption' = 1 /\ sortLoaded' = FALSE /\ sortPc' = "get"
  ELSE IF view2 # "account" /\ currentView = "account"
  THEN /\ sortOption' = 1 /\ sortLoaded' = FALSE /\ sortPc' = "idle"
  ELSE UNCHANGED sortVars

PushesAfterView(view2) ==
  IF view2 # "account" /\ currentView = "account"
  THEN {IF p.field = "sortOption" THEN [p EXCEPT !.awaited = FALSE] ELSE p : p \in pushes}
  ELSE pushes

(* The navigation buttons (hidden in the detail view).                     *)
SetCurrentView(view2) ==
  /\ currentView # "detail"
  /\ view2 # currentView
  /\ currentView' = view2
  /\ SortAfterView(view2)
  /\ pushes' = PushesAfterView(view2)
  /\ UNCHANGED <<currentAccount, fetchVars, tradeVars, watchlist, detailFundId, syncLoading, details,
                 ticks, interval, alertBit, preferencesLoaded, loadPc,
                 defaultAccountId, remote, localStore, nIssued, lastWl, migrated>>

(* handleBack: the back button of the detail view.                         *)
HandleBack ==
  /\ currentView = "detail"
  /\ currentView' = "list"
  /\ detailFundId' = NULL
  /\ UNCHANGED <<currentAccount, fetchVars, tradeVars, sortVars, prefVars, watchlist, syncLoading,
                 details, ticks, interval, alertBit>>

(* The account selector of the header, shown in the account view:          *)
(* setCurrentAccount(Number(e.target.value)), then the syncAccount effect. *)
SwitchAccount(a) ==
  /\ currentView = "account"
  /\ a # currentAccount
  /\ Render(FALSE, watchlist, a, preferencesLoaded, <<>>)
  /\ UNCHANGED <<fetchVars, tradeVars, sortVars, currentView, detailFundId, syncLoading, details,
                 ticks, alertBit, loadPc, defaultAccountId, remote, localStore,
                 migrated>>

(***************************************************************************)
(* App.jsx: the watchlist handlers.  A pending getFundDetail call (or the  *)
(* Promise.all of several) is a record in details; the server's detail of  *)
(* fund id carries that id.                                                *)
(***************************************************************************)
Pending(kind, ids) == [kind |-> kind, ids |-> ids]

(***************************************************************************)
(* App.jsx: the search box.  A timer of the debounce is a record with its  *)
(* id, the searchQuery of the render that set it and the time left, in     *)
(* units of 100 ms; a searchFunds call in flight keeps the timer's id and  *)
(* query.                                                                  *)
(***************************************************************************)
SearchTimer(id, query) == [id |-> id, query |-> query, left |-> DebounceUnits]

(* if (searchTimeoutRef.current) clearTimeout(searchTimeoutRef.current)    *)
ClearSearchTimeout(pending) == {t \in pending : t.id # searchTimeoutRef}

(* The id setTimeout returns next.                                        *)
NextTimerId == IF searchTimeoutRef = NULL THEN 1 ELSE searchTimeoutRef + 1

(* The search effect without its clearTimeout calls: a pending timer       *)
(* survives a change of the query.                                         *)
SearchEffectKeepingTimers(q, show2) ==
  IF q = searchQuery
  THEN /\ showSearchResults' = show2
       /\ UNCHANGED <<searchQuery, searchResults, searchLoading, searchTimeoutRef,
                      searchTimers, searches, queryAge>>
  ELSE /\ searchQuery' = q
       /\ queryAge' = 0
       /\ IF q = ""
          THEN /\ searchResults' = <<>>
               /\ showSearchResults' = FALSE
               /\ UNCHANGED <<searchTimers, searchTimeoutRef>>
          ELSE /\ searchTimers' = searchTimers \cup {SearchTimer(NextTimerId, q)}
               /\ searchTimeoutRef' = NextTimerId
               /\ showSearchResults' = show2
               /\ UNCHANGED searchResults
       /\ UNCHANGED <<searchLoading, searches>>

(* A render after setSearchQuery(q) and setShowSearchResults(show2): when  *)
(* the query has changed, the cleanup of the previous effect (there is one *)
(* if the previous query was not empty) and the effect for q.              *)
SearchEffect(q, show2) ==
  IF q = searchQuery
  THEN /\ showSearchResults' = show2
       /\ UNCHANGED <<searchQuery, searchResults, searchLoading, searchTimeoutRef,
                      searchTimers, searches, queryAge>>
  ELSE LET cleaned == IF searchQuery # "" THEN ClearSearchTimeout(searchTimers)
                      ELSE searchTimers
       IN /\ searchQuery' = q
          /\ queryAge' = 0
          /\ IF q = ""
             THEN /\ searchResults' = <<>>
                  /\ showSearchResults' = FALSE
                  /\ searchTimers' = cleaned
                  /\ UNCHANGED searchTimeoutRef
             ELSE /\ searchTimers' = ClearSearchTimeout(cleaned) \cup {SearchTimer(NextTimerId, q)}
                  /\ searchTimeoutRef' = NextTimerId
                  /\ showSearchResults' = show2
                  /\ UNCHANGED searchResults
          /\ UNCHANGED <<searchLoading, searches>>

(* onChange of the search input: setSearchQuery(e.target.value).           *)
SetSearchQuery(q) ==
  /\ currentView = "list"
  /\ q # searchQuery
  /\ q # "" => NextTimerId <= MaxSearchTimers
  /\ SearchEffect(q, showSearchResults)
  /\ UNCHANGED <<currentAccount, fetchVars, appVars, accountPageVars, analyzeVars>>

(* onFocus of the search input: searchQuery && setShowSearchResults(true). *)
SearchFocus ==
  /\ currentView = "list"
  /\ searchQuery # ""
  /\ ~showSearchResults
  /\ showSearchResults' = TRUE
  /\ UNCHANGED <<currentAccount, fetchVars, appVars, accountPageVars, analyzeVars, searchQuery,
                 searchResults, searchLoading, searchTimeoutRef, searchTimers, searches,
                 queryAge>>

(* 100 ms pass: no pending timer is due.                                   *)
SearchTick ==
  /\ searchTimers # {}
  /\ \A t \in searchTimers : t.left > 0
  /\ searchTimers' = {[t EXCEPT !.left = t.left - 1] : t \in searchTimers}
  /\ queryAge' = IF queryAge < DebounceUnits THEN queryAge + 1 ELSE queryAge
  /\ UNCHANGED <<currentAccount, fetchVars, appVars, accountPageVars, analyzeVars, searchQuery,
                 searchResults, showSearchResults, searchLoading, searchTimeoutRef, searches>>

(* A timer of the debounce fires: setSearchLoading(true) and               *)
(* searchFunds(searchQuery) with the query of the render that set it.      *)
SearchTimerFires(t) ==
  /\ t \in searchTimers
  /\ t.left = 0
  /\ searchTimers' = searchTimers \ {t}
  /\ searchLoading' = TRUE
  /\ searches' = searches \cup {[id |-> t.id, query |-> t.query]}
  /\ UNCHANGED <<currentAccount, fetchVars, appVars, accountPageVars, analyzeVars, searchQuery,
                 searchResults, showSearchResults, searchTimeoutRef, queryAge>>

(* The data of a /search response: an array, or nothing.                   *)
SearchBody(list) == [given |-> TRUE, list |-> list]

NoSearchBody == [given |-> FALSE, list |-> <<>>]

(* api.js searchFunds: response.data, [] when the request failed.          *)
searchFunds(ok, body) == IF ok THEN body ELSE SearchBody(<<>>)

(* await searchFunds(...) resolves: setSearchResults(results || []),       *)
(* setShowSearchResults(true), setSearchLoading(false).                    *)
SearchResolved(s, ok, body) ==
  /\ s \in searches
  /\ searches' = searches \ {s}
  /\ LET results == searchFunds(ok, body)
     IN searchResults' = IF results.given THEN results.list ELSE <<>>
  /\ showSearchResults' = TRUE
  /\ searchLoading' = FALSE
  /\ UNCHANGED <<currentAccount, fetchVars, appVars, accountPageVars, analyzeVars, searchQuery,
                 searchTimeoutRef, searchTimers, queryAge>>

(* handleSelectFund(fund) up to its await: a search result is clicked.     *)
(* setShowSearchResults(false), setSearchQuery(''), getFundDetail.         *)
HandleSelectFund(id) ==
  /\ currentView = "list"
  /\ Cardinality(details) < MaxPending
  /\ details' = details \cup {Pending("select", <<id>>)}
  /\ SearchEffect("", FALSE)
  /\ UNCHANGED <<currentAccount, fetchVars, accountPageVars, analyzeVars, sortVars, prefVars,
                 watchlist, currentView, detailFundId, syncLoading, ticks, interval, alertBit>>

(* getFundDetail resolved in handleSelectFund: the functional setWatchlist. *)
SelectFundResolved(d, snap) ==
  /\ d \in details /\ d.kind = "select"
  /\ details' = details \ {d}
  /\ LET wl2 == InsertIfAbsent(watchlist, NewFund(Detail(d.ids[1], snap)))
     IN Render(wl2 # watchlist, wl2, currentAccount, preferencesLoaded, <<>>)
  /\ UNCHANGED <<fetchVars, tradeVars, sortVars, currentView, detailFundId, syncLoading, ticks,
                 alertBit, loadPc, defaultAccountId, remote, localStore, migrated>>

(* getFundDetail rejected in handleSelectFund: alert. *)
SelectFundRejected(d) ==
  /\ d \in details /\ d.kind = "select"
  /\ details' = details \ {d}
  /\ alertBit' = ~alertBit
  /\ UNCHANGED <<currentAccount, fetchVars, tradeVars, sortVars, prefVars, watchlist, currentView,
                 detailFundId, syncLoading, ticks, interval>>

(* The cards a view offers: the watchlist's in the list view, a position's *)
(* in the account view, the neighbours' of the fund shown in the detail    *)
(* view.                                                                   *)
Clickable(fundId) ==
  \/ currentView = "account"
  \/ currentView = "list" /\ fundId \in Ids(watchlist)
  \/ currentView = "detail" /\ fundId \in Ids(watchlist) /\ detailFundId \in Ids(watchlist)

(* handleCardClick(fundId) up to its await, or to its end when the fund is *)
(* in the watchlist of the render the handler closes over.                 *)
HandleCardClick(fundId) ==
  /\ Clickable(fundId)
  /\ IF fundId \in Ids(watchlist)
     THEN /\ detailFundId' = fundId
          /\ currentView' = "detail"
          /\ SortAfterView("detail")
          /\ pushes' = PushesAfterView("detail")
          /\ details' = details
     ELSE /\ Cardinality(details) < MaxPending
          /\ details' = details \cup {Pending("card", <<fundId>>)}
          /\ UNCHANGED <<detailFundId, currentView, sortVars, pushes>>
  /\ UNCHANGED <<currentAccount, fetchVars, tradeVars, watchlist, syncLoading, ticks, interval, alertBit, preferencesLoaded, loadPc, defaultAccountId, remote,
                 localStore, nIssued, lastWl, migrated>>

(* getFundDetail resolved in handleCardClick. *)
CardDetailResolved(d, snap) ==
  /\ d \in details /\ d.kind = "card"
  /\ details' = details \ {d}
  /\ LET wl2 == InsertIfAbsent(watchlist, NewFund(Detail(d.ids[1], snap)))
     IN /\ watchlist' = wl2
        /\ interval' = IF wl2 # watchlist THEN SetInterval(interval, wl2) ELSE interval
        /\ IssueFrom(PushesAfterView("detail"), lastWl,
                     SyncWatchlist(wl2 # watchlist, wl2, preferencesLoaded))
  /\ detailFundId' = d.ids[1]
  /\ currentView' = "detail"
  /\ SortAfterView("detail")
  /\ UNCHANGED <<currentAccount, fetchVars, tradeVars, syncLoading, ticks, alertBit,
                 preferencesLoaded, loadPc, defaultAccountId, remote, localStore, migrated>>

(* getFundDetail rejected in handleCardClick: alert and return. *)
CardDetailRejected(d) ==
  /\ d \in details /\ d.kind = "card"
  /\ details' = details \ {d}
  /\ alertBit' = ~alertBit
  /\ UNCHANGED <<currentAccount, fetchVars, tradeVars, sortVars, prefVars, watchlist, currentView,
                 detailFundId, syncLoading, ticks, interval>>

(* removeFund(id): the remove button of a card in the list view.           *)
RemoveFund(id) ==
  /\ currentView = "list"
  /\ id \in Ids(watchlist)
  /\ Render(TRUE, RemoveId(watchlist, id), currentAccount, preferencesLoaded, <<>>)
  /\ UNCHANGED <<fetchVars, tradeVars, sortVars, currentView, detailFundId, syncLoading, details,
                 ticks, alertBit, loadPc, defaultAccountId, remote, localStore,
                 migrated>>

(* The positions the Account page passes: a non-empty list, one position   *)
(* per fund code.                                                          *)
PositionLists ==
  {ps \in SeqsUpTo(Funds, MaxFund) :
     ps # <<>> /\ \A i, j \in 1..Len(ps) : ps[i] = ps[j] => i = j}

(* positions.filter(p => !existingIds.has(p.code)) *)
NotIn(ps, ids) == SelectSeq(ps, LAMBDA c : c \notin ids)

(* handleSyncWatchlist(positions) up to its await, or to its early return. *)
HandleSyncWatchlist(positions) ==
  /\ currentView = "account"
  /\ ~syncLoading
  /\ LET newFunds == NotIn(positions, Ids(watchlist))
     IN IF newFunds = <<>>
        THEN /\ alertBit' = ~alertBit
             /\ UNCHANGED <<syncLoading, details>>
        ELSE /\ Cardinality(details) < MaxPending
             /\ syncLoading' = TRUE
             /\ details' = details \cup {Pending("sync", newFunds)}
             /\ alertBit' = alertBit
  /\ UNCHANGED <<currentAccount, fetchVars, tradeVars, sortVars, prefVars, watchlist, currentView,
                 detailFundId, ticks, interval>>

(* Outcome of one getFundDetail of a Promise.all: 0 rejected, else the     *)
(* snapshot the detail carries.                                            *)
Outcomes(n) == [1..n -> {0} \cup Snaps]

(* addedFunds.filter(f => f !== null) *)
RECURSIVE ValidFunds(_, _, _)
ValidFunds(ids, outcomes, i) ==
  IF i > Len(ids) THEN <<>>
  ELSE (IF outcomes[i] = 0 THEN <<>> ELSE <<NewFund(Detail(ids[i], outcomes[i]))>>)
       \o ValidFunds(ids, outcomes, i + 1)

(* setWatchlist(prev => ...) of handleSyncWatchlist. *)
AppendNew(prev, validFunds) ==
  LET newFunds == SelectSeq(validFunds, LAMBDA f : f.id \notin Ids(prev))
  IN IF newFunds = <<>> THEN prev ELSE prev \o newFunds

(* The Promise.all of handleSyncWatchlist resolved. *)
SyncResolved(d, outcomes) ==
  /\ d \in details /\ d.kind = "sync"
  /\ details' = details \ {d}
  /\ LET validFunds == ValidFunds(d.ids, outcomes, 1)
         wl2 == IF validFunds # <<>> THEN AppendNew(watchlist, validFunds) ELSE watchlist
     IN Render(wl2 # watchlist, wl2, currentAccount, preferencesLoaded, <<>>)
  /\ alertBit' = ~alertBit
  /\ syncLoading' = FALSE
  /\ UNCHANGED <<fetchVars, tradeVars, sortVars, currentView, detailFundId, ticks, loadPc,
                 defaultAccountId, remote, localStore, migrated>>

(***************************************************************************)
(* App.jsx: the 15 s watchlist poll.                                       *)
(***************************************************************************)
(* Promise.all over the list with one failure failing the tick.            *)
UpdatedListAllOrNothing(base, outcomes) ==
  IF \E i \in 1..Len(base) : outcomes[i] = 0 THEN base
  ELSE [i \in 1..Len(base) |-> Merge(base[i], Detail(base[i].id, outcomes[i]))]

(* watchlist.map(async fund => { try {...merge} catch { return fund } })   *)
UpdatedList(base, outcomes) ==
  [i \in 1..Len(base) |->
     IF outcomes[i] = 0 THEN base[i]
     ELSE Merge(base[i], Detail(base[i].id, outcomes[i]))]

(* A tick in flight: the list it maps over and, once every request has    *)
(* settled, the outcome of each.                                           *)
Tick(base, outcomes) == [base |-> base, outcomes |-> outcomes]

(* An armed interval fires: tick() maps over the list of the render that   *)
(* armed it.                                                               *)
TickFire ==
  /\ Cardinality(ticks) < MaxTicks
  /\ \E i \in 1..Len(interval) : ticks' = ticks \cup {Tick(interval[i].list, <<>>)}
  /\ UNCHANGED <<currentAccount, fetchVars, tradeVars, sortVars, prefVars, watchlist, currentView,
                 detailFundId, syncLoading, details, interval, alertBit>>

(* The getFundDetail requests of a tick settle.                            *)
TickSettled(t, outcomes) ==
  /\ t \in ticks /\ t.outcomes = <<>>
  /\ ticks' = (ticks \ {t}) \cup {Tick(t.base, outcomes)}
  /\ UNCHANGED <<currentAccount, fetchVars, tradeVars, sortVars, prefVars, watchlist, currentView,
                 detailFundId, syncLoading, details, interval, alertBit>>

(* Promise.all resolved: setWatchlist(updatedList).                        *)
TickResolved(t) ==
  /\ t \in ticks /\ t.outcomes # <<>>
  /\ ticks' = ticks \ {t}
  /\ Render(TRUE, UpdatedList(t.base, t.outcomes), currentAccount, preferencesLoaded, <<>>)
  /\ UNCHANGED <<fetchVars, tradeVars, sortVars, currentView, detailFundId, syncLoading, details,
                 alertBit, loadPc, defaultAccountId, remote, localStore, migrated>>

(***************************************************************************)
(* The trade forms.  A number input holds the empty string or a decimal    *)
(* literal; quantities are counted in tenths of a share or of a yuan.      *)
(***************************************************************************)
Blank == [blank |-> TRUE, sign |-> "", int |-> 0, frac |-> 0]

NumberText(sign, int, frac) == [blank |-> FALSE, sign |-> sign, int |-> int, frac |-> frac]

NumberTexts ==
  {Blank} \cup {NumberText(sg, i, f) : sg \in {"", "-"}, i \in 0..MaxUnits, f \in {0, 5}}

(* parseFloat of such a text, in tenths.                                   *)
ParseFloat(text) ==
  IF text.sign = "-" THEN 0 - (10 * text.int + text.frac) ELSE 10 * text.int + text.frac

(* !text: of the strings only the empty one is falsy ("0" is truthy).      *)
Falsy(text) == text.blank

(* position.shares as the server reports it, in tenths.                    *)
Holdings == {10 * i + f : i \in 0..MaxUnits, f \in {0, 5}}

(* !amount || parseFloat(amount) <= 0, with < in place of <=.              *)
NonPositiveStrict(text) == Falsy(text) \/ ParseFloat(text) < 0

(* !amount || parseFloat(amount) <= 0                                      *)
NonPositive(text) == Falsy(text) \/ ParseFloat(text) <= 0

(* maxShares != null && sh > maxShares, with twice the holding as limit. *)
ExceedsHoldingTwice(sh, maxShares) == maxShares # NULL /\ sh > 2 * maxShares

(* maxShares != null && sh > maxShares                                     *)
ExceedsHolding(sh, maxShares) == maxShares # NULL /\ sh > maxShares

TradeCall(op, via, value, maxShares) ==
  [op |-> op, via |-> via, value |-> value, max |-> maxShares, account |-> currentAccount]

(* How the latest submission of the form as it stands ended: "invalid"    *)
(* (returned or threw on the amount), "over" (on the holding), "busy",     *)
(* "sent"; editing, opening or closing the form clears it.                 *)
Attempt(op, via, outcome) == [op |-> op, via |-> via, outcome |-> outcome]

NoAttempt == Attempt("none", "none", "none")

(* The position form: { code: '', cost: '', shares: '' }; the empty code   *)
(* is 0.                                                                   *)
FormData(code, cost, shares) == [code |-> code, cost |-> cost, shares |-> shares]

BlankForm == FormData(0, Blank, Blank)

(* What the latest step of a position operation consumed and did: the      *)
(* server's answer it received ("none" when it received none), the notice  *)
(* it showed, and whether the handler call returned, threw or is still     *)
(* awaiting.                                                               *)
Step(ans, shown, end) ==
  /\ answer' = ans
  /\ notice' = shown
  /\ ended' = end

FormsIdle ==
  /\ modalOpen = FALSE
  /\ formData = BlankForm
  /\ submitting = FALSE
  /\ navUpdating = FALSE
  /\ positionChanges = 0
  /\ answer = "none"
  /\ notice = "none"
  /\ ended = "none"
  /\ addModalPos = NULL
  /\ addAmount = Blank
  /\ addSubmitting = FALSE
  /\ reduceModalPos = NULL
  /\ reduceShares = Blank
  /\ reduceSubmitting = FALSE
  /\ tradeCalls = {}
  /\ lastTrade = NoAttempt

(* const [accounts, setAccounts] = useState([]), and whether the           *)
(* loadAccounts() of the mount effect has run.                             *)
AccountsPending == [loaded |-> FALSE, list |-> <<>>]

(* The search box of the header before anything is typed: useState(''),   *)
(* useState([]), useState(false), useState(false), useRef(null); no timer  *)
(* is pending and no searchFunds call is in flight.                        *)
SearchIdle ==
  /\ searchQuery = ""
  /\ searchResults = <<>>
  /\ showSearchResults = FALSE
  /\ searchLoading = FALSE
  /\ searchTimeoutRef = NULL
  /\ searchTimers = {}
  /\ searches = {}
  /\ queryAge = 0

(* AiAnalysis as it mounts: useState(null) analysis, useState(false)       *)
(* loading, useState(null) error, useState(true) canAnalyze, useState(0)   *)
(* countdown; the countdown effect of the mount finds 0.  cooldownAge is   *)
(* the time in seconds since handleAnalyze last started a request, capped  *)
(* at CooldownSeconds.                                                     *)
AnalyzeIdle ==
  /\ analysis = NULL
  /\ analysisLoading = FALSE
  /\ analysisError = FALSE
  /\ canAnalyze = TRUE
  /\ countdown = 0
  /\ countdownTimers = {}
  /\ analyses = 0
  /\ cooldownAge = CooldownSeconds

(* The Account page before it has rendered any row.                        *)
ViewIdle ==
  /\ displayPositions = <<>>
  /\ sortedPositions = <<>>
  /\ ledger = <<>>
  /\ accounts = AccountsPending
  /\ SearchIdle
  /\ AnalyzeIdle

TradeIdle == FormsIdle /\ ViewIdle

(***************************************************************************)
(* fetchData(retryCount): retry policy.                                    *)
(***************************************************************************)
RECURSIVE Pow2(_)
Pow2(n) == IF n = 0 THEN 1 ELSE 2 * Pow2(n - 1)

(* retryCount < 2: a click event passed as retryCount converts to NaN,     *)
(* and every comparison with NaN is false.                                 *)
ShouldRetryThree(retryCount) == retryCount # EVT /\ retryCount < 3

ShouldRetry(retryCount) == retryCount # EVT /\ retryCount < 2

RetryDelay(retryCount) == Pow2(retryCount) * 1000

NewChain(start) == [start |-> start, issued |-> 1, failed |-> 0, ok |-> 0, err |-> FALSE]

Request(kind, chain, retryCount, account) ==
  [seq |-> nextSeq, kind |-> kind, chain |-> chain, retryCount |-> retryCount,
   account |-> account, http |-> IssueGet(apiModule, account)]

(* fetchData(retryCount) up to its await, called from a render whose       *)
(* currentAccount is account; starts chain nextSeq.                        *)
StartFetch(retryCount, account) ==
  /\ nextSeq <= MaxReq
  /\ loading' = TRUE
  /\ error' = NoError
  /\ inflight' = inflight \cup {Request("fetch", nextSeq, retryCount, account)}
  /\ chains' = chains @@ (nextSeq :> NewChain(retryCount))
  /\ nextSeq' = nextSeq + 1

(* SelectAccount as it would be if the account-change effect aborted the   *)
(* requests still in flight.                                               *)
SelectAccountAbort(a) ==
  /\ a # currentAccount
  /\ currentAccount' = a
  /\ nextSeq <= MaxReq
  /\ loading' = TRUE
  /\ error' = NoError
  /\ inflight' = {Request("fetch", nextSeq, 0, a)}
  /\ chains' = chains @@ (nextSeq :> NewChain(0))
  /\ nextSeq' = nextSeq + 1
  /\ pollAccount' = SetPollInterval(pollAccount, TRUE, a)
  /\ UNCHANGED <<appVars, tradeVars, apiModule, data, timers, responses, lastOk, maxOk>>

(* The account-change effect: fetchData() with the new account, and the    *)
(* polling effect clears its interval and arms one for the new account.    *)
SelectAccount(a) ==
  /\ a # currentAccount
  /\ currentAccount' = a
  /\ StartFetch(0, a)
  /\ pollAccount' = SetPollInterval(pollAccount, TRUE, a)
  /\ UNCHANGED <<appVars, tradeVars, apiModule, data, timers, responses, lastOk, maxOk>>

(* The error banner's button: onClick={() => fetchData()}.                 *)
RetryClick ==
  /\ error # NoError
  /\ StartFetch(0, currentAccount)
  /\ UNCHANGED <<appVars, tradeVars, currentAccount, apiModule, data, timers, pollAccount, responses, lastOk, maxOk>>

(* PortfolioChart's button: onClick={onRefresh} with onRefresh={fetchData}, *)
(* so fetchData receives the click event as retryCount.  The chart renders  *)
(* only once positions are loaded.                                          *)
RefreshClick ==
  /\ data # EmptyData
  /\ StartFetch(EVT, currentAccount)
  /\ UNCHANGED <<appVars, tradeVars, currentAccount, apiModule, data, timers, pollAccount, responses, lastOk, maxOk>>

(* fetchData: the await resolves; setData(res), finally setLoading(false). *)
FetchOk(r) ==
  /\ r \in inflight /\ r.kind = "fetch"
  /\ inflight' = inflight \ {r}
  /\ data' = Payload(r)
  /\ loading' = FALSE
  /\ chains' = [chains EXCEPT ![r.chain].ok = @ + 1]
  /\ responses' = responses + 1
  /\ lastOk' = Payload(r)
  /\ maxOk' = IF r.seq > maxOk THEN r.seq ELSE maxOk
  /\ UNCHANGED <<appVars, tradeVars, currentAccount, apiModule, error, timers, pollAccount, nextSeq>>

(* fetchData: the await rejects; a retry timer is armed or the error set.  *)
FetchFail(r) ==
  /\ r \in inflight /\ r.kind = "fetch"
  /\ inflight' = inflight \ {r}
  /\ loading' = FALSE
  /\ responses' = responses + 1
  /\ IF ShouldRetry(r.retryCount)
     THEN /\ timers' = timers \cup {[chain |-> r.chain, retryCount |-> r.retryCount + 1,
                                     delay |-> RetryDelay(r.retryCount),
                                     account |-> r.account]}
          /\ chains' = [chains EXCEPT ![r.chain].failed = @ + 1]
          /\ error' = error
     ELSE /\ timers' = timers
          /\ chains' = [chains EXCEPT ![r.chain].failed = @ + 1, ![r.chain].err = TRUE]
          /\ error' = LoadFailed
  /\ UNCHANGED <<appVars, tradeVars, currentAccount, apiModule, data, pollAccount, nextSeq, lastOk, maxOk>>

(* setTimeout(() => fetchData(retryCount + 1), delay) fires: the callback  *)
(* closes over the fetchData, and so the account, of the render that armed *)
(* it.                                                                     *)
RetryFire(t) ==
  /\ t \in timers
  /\ nextSeq <= MaxReq
  /\ timers' = timers \ {t}
  /\ loading' = TRUE
  /\ error' = NoError
  /\ inflight' = inflight \cup {Request("fetch", t.chain, t.retryCount, t.account)}
  /\ chains' = [chains EXCEPT ![t.chain].issued = @ + 1]
  /\ nextSeq' = nextSeq + 1
  /\ UNCHANGED <<appVars, tradeVars, currentAccount, apiModule, data, pollAccount, responses, lastOk, maxOk>>

(* An armed 15 s interval fires: getAccountPositions(currentAccount) of the *)
(* render that armed it, no loading flag, no error handling but a log.     *)
PollFire ==
  /\ nextSeq <= MaxReq
  /\ \E i \in 1..Len(pollAccount) :
       inflight' = inflight \cup {Request("poll", 0, 0, pollAccount[i])}
  /\ nextSeq' = nextSeq + 1
  /\ UNCHANGED <<appVars, tradeVars, currentAccount, apiModule, data, loading, error, timers, pollAccount,
                 chains, responses, lastOk, maxOk>>

PollOk(r) ==
  /\ r \in inflight /\ r.kind = "poll"
  /\ inflight' = inflight \ {r}
  /\ data' = Payload(r)
  /\ responses' = responses + 1
  /\ lastOk' = Payload(r)
  /\ maxOk' = IF r.seq > maxOk THEN r.seq ELSE maxOk
  /\ UNCHANGED <<appVars, tradeVars, currentAccount, apiModule, loading, error, timers, pollAccount,
                 nextSeq, chains>>

PollFail(r) ==
  /\ r \in inflight /\ r.kind = "poll"
  /\ inflight' = inflight \ {r}
  /\ responses' = responses + 1
  /\ UNCHANGED <<appVars, tradeVars, currentAccount, apiModule, data, loading, error, timers, pollAccount,
                 nextSeq, chains, lastOk, maxOk>>

(* The Account page after its first render with isActive: the mount        *)
(* effects have called fetchData() and armed the polling interval.         *)
FetchInit ==
  /\ currentAccount \in Accounts
  /\ apiModule \in ApiModules
  /\ data = EmptyData
  /\ loading = TRUE
  /\ error = NoError
  /\ inflight = {[seq |-> 1, kind |-> "fetch", chain |-> 1, retryCount |-> 0,
                  account |-> currentAccount,
                  http |-> IssueGet(apiModule, currentAccount)]}
  /\ timers = {}
  /\ pollAccount = <<currentAccount>>
  /\ nextSeq = 2
  /\ chains = (1 :> NewChain(0))
  /\ responses = 0
  /\ lastOk = EmptyData
  /\ maxOk = 0
  /\ AppIdle
  /\ TradeIdle

FetchNext ==
  \/ \E a \in Accounts : SelectAccount(a)
  \/ RetryClick
  \/ RefreshClick
  \/ \E r \in inflight : FetchOk(r)
  \/ \E r \in inflight : FetchFail(r)
  \/ \E t \in timers : RetryFire(t)
  \/ PollFire
  \/ \E r \in inflight : PollOk(r)
  \/ \E r \in inflight : PollFail(r)

SpecFetch == FetchInit /\ [][FetchNext]_vars

(***************************************************************************)
(* The trade forms of the Account page and the trade handlers of           *)
(* usePositions.                                                           *)
(***************************************************************************)
(* handleOpenAddModal(pos): the position's holding stands for pos.         *)
HandleOpenAddModal(shares) ==
  /\ UNCHANGED viewVars
  /\ currentAccount # AGGREGATE
  /\ data # EmptyData
  /\ addModalPos = NULL /\ reduceModalPos = NULL
  /\ addModalPos' = shares
  /\ addAmount' = Blank
  /\ lastTrade' = NoAttempt
  /\ Step("none", "none", "none")
  /\ UNCHANGED <<currentAccount, fetchVars, appVars, addSubmitting, reduceModalPos,
                 reduceShares, reduceSubmitting, tradeCalls, formVars>>

(* handleOpenReduceModal(pos) *)
HandleOpenReduceModal(shares) ==
  /\ UNCHANGED viewVars
  /\ currentAccount # AGGREGATE
  /\ data # EmptyData
  /\ addModalPos = NULL /\ reduceModalPos = NULL
  /\ reduceModalPos' = shares
  /\ reduceShares' = Blank
  /\ lastTrade' = NoAttempt
  /\ Step("none", "none", "none")
  /\ UNCHANGED <<currentAccount, fetchVars, appVars, addModalPos, addAmount, addSubmitting,
                 reduceSubmitting, tradeCalls, formVars>>

(* The close buttons: setAddModalPos(null) / setReduceModalPos(null).      *)
CloseTradeModal ==
  /\ UNCHANGED viewVars
  /\ addModalPos # NULL \/ reduceModalPos # NULL
  /\ addModalPos' = NULL
  /\ reduceModalPos' = NULL
  /\ lastTrade' = NoAttempt
  /\ Step("none", "none", "none")
  /\ UNCHANGED <<currentAccount, fetchVars, appVars, addAmount, addSubmitting,
                 reduceShares, reduceSubmitting, tradeCalls, formVars>>

(* onChange of the amount input: setAddAmount(e.target.value).             *)
SetAddAmount(text) ==
  /\ UNCHANGED viewVars
  /\ addModalPos # NULL
  /\ text # addAmount
  /\ addAmount' = text
  /\ lastTrade' = NoAttempt
  /\ Step("none", "none", "none")
  /\ UNCHANGED <<currentAccount, fetchVars, appVars, addModalPos, addSubmitting,
                 reduceModalPos, reduceShares, reduceSubmitting, tradeCalls, formVars>>

(* onChange of the shares input: setReduceShares(e.target.value).          *)
SetReduceShares(text) ==
  /\ UNCHANGED viewVars
  /\ reduceModalPos # NULL
  /\ text # reduceShares
  /\ reduceShares' = text
  /\ lastTrade' = NoAttempt
  /\ Step("none", "none", "none")
  /\ UNCHANGED <<currentAccount, fetchVars, appVars, addModalPos, addAmount, addSubmitting,
                 reduceModalPos, reduceSubmitting, tradeCalls, formVars>>

(* handleAddSubmit up to its await or its early return.                    *)
HandleAddSubmit ==
  /\ UNCHANGED viewVars
  /\ addModalPos # NULL
  /\ IF NonPositive(addAmount)
     THEN /\ lastTrade' = Attempt("add", "form", "invalid")
          /\ Step("none", "none", "returned")
          /\ UNCHANGED <<addSubmitting, tradeCalls>>
     ELSE IF addSubmitting
     THEN /\ lastTrade' = Attempt("add", "form", "busy")
          /\ Step("none", "none", "returned")
          /\ UNCHANGED <<addSubmitting, tradeCalls>>
     ELSE /\ Cardinality(tradeCalls) < MaxTrades
          /\ addSubmitting' = TRUE
          /\ tradeCalls' = tradeCalls \cup {TradeCall("add", "form", ParseFloat(addAmount), NULL)}
          /\ lastTrade' = Attempt("add", "form", "sent")
          /\ Step("none", "none", "none")
  /\ UNCHANGED <<currentAccount, fetchVars, appVars, addModalPos, addAmount, reduceModalPos,
                 reduceShares, reduceSubmitting, formVars>>

(* handleReduceSubmit up to its await or its early return.                 *)
HandleReduceSubmit ==
  /\ UNCHANGED viewVars
  /\ reduceModalPos # NULL
  /\ IF NonPositive(reduceShares)
     THEN /\ lastTrade' = Attempt("reduce", "form", "invalid")
          /\ Step("none", "none", "returned")
          /\ UNCHANGED <<reduceSubmitting, tradeCalls, alertBit>>
     ELSE IF reduceSubmitting
     THEN /\ lastTrade' = Attempt("reduce", "form", "busy")
          /\ Step("none", "none", "returned")
          /\ UNCHANGED <<reduceSubmitting, tradeCalls, alertBit>>
     ELSE IF ExceedsHolding(ParseFloat(reduceShares), reduceModalPos)
     THEN /\ lastTrade' = Attempt("reduce", "form", "over")
          /\ alertBit' = ~alertBit
          /\ Step("none", "limit", "returned")
          /\ UNCHANGED <<reduceSubmitting, tradeCalls>>
     ELSE /\ Cardinality(tradeCalls) < MaxTrades
          /\ reduceSubmitting' = TRUE
          /\ tradeCalls' = tradeCalls \cup
               {TradeCall("reduce", "form", ParseFloat(reduceShares), reduceModalPos)}
          /\ lastTrade' = Attempt("reduce", "form", "sent")
          /\ alertBit' = alertBit
          /\ Step("none", "none", "none")
  /\ UNCHANGED <<currentAccount, fetchVars, sortVars, prefVars, watchlist, currentView,
                 detailFundId, syncLoading, details, ticks, interval,
                 addModalPos, addAmount, addSubmitting, reduceModalPos, reduceShares,
                 formVars>>

(* What the server answers to an accepted trade: the confirmed result or   *)
(* { pending: true } while the day's NAV is not published.                 *)
TradeResults == {[pending |-> TRUE], [pending |-> FALSE]}

TradeAnswer(result) == IF result.pending THEN "pending" ELSE "confirmed"

(* The trade handlers with a pending result taken for a failure.           *)
TradeNoticePendingFails(result) == IF result.pending THEN "failed" ELSE "confirmed"

(* if (result.pending) alert(message || pending text) else alert(confirmed *)
(* text): the notice a resolved trade shows.                               *)
TradeNotice(result) == IF result.pending THEN "pending" ELSE "confirmed"

(* The trade request of a form resolved: the modal closes, alert,          *)
(* fetchData(), and finally the submitting flag is cleared.                *)
FormTradeOk(c, result) ==
  /\ UNCHANGED viewVars
  /\ c \in tradeCalls /\ c.via = "form" /\ c.op \in {"add", "reduce"}
  /\ tradeCalls' = tradeCalls \ {c}
  /\ IF c.op = "add"
     THEN /\ addModalPos' = NULL /\ addSubmitting' = FALSE
          /\ UNCHANGED <<reduceModalPos, reduceSubmitting>>
     ELSE /\ reduceModalPos' = NULL /\ reduceSubmitting' = FALSE
          /\ UNCHANGED <<addModalPos, addSubmitting>>
  /\ alertBit' = ~alertBit
  /\ lastTrade' = NoAttempt
  /\ Step(TradeAnswer(result), TradeNotice(result), "returned")
  /\ StartFetch(0, currentAccount)
  /\ UNCHANGED <<currentAccount, apiModule, data, timers, pollAccount, responses, lastOk,
                 maxOk, sortVars, prefVars, watchlist, currentView, detailFundId,
                 syncLoading, details, ticks, interval, addAmount,
                 reduceShares, formVars>>

(* The trade request of a form rejected: alert, the flag is cleared.       *)
FormTradeFail(c) ==
  /\ UNCHANGED viewVars
  /\ c \in tradeCalls /\ c.via = "form" /\ c.op \in {"add", "reduce"}
  /\ tradeCalls' = tradeCalls \ {c}
  /\ IF c.op = "add"
     THEN /\ addSubmitting' = FALSE /\ UNCHANGED reduceSubmitting
     ELSE /\ reduceSubmitting' = FALSE /\ UNCHANGED addSubmitting
  /\ alertBit' = ~alertBit
  /\ Step("rejected", "failed", "returned")
  /\ UNCHANGED <<currentAccount, fetchVars, sortVars, prefVars, watchlist, currentView,
                 detailFundId, syncLoading, details, ticks, interval,
                 addModalPos, addAmount, reduceModalPos, reduceShares, lastTrade, formVars>>

(* usePositions.handleAddPosition(code, amount, tradeTime) up to its await *)
(* or its throw.                                                           *)
HandleAddPosition(amount) ==
  /\ UNCHANGED viewVars
  /\ addModalPos # NULL
  /\ IF NonPositive(amount)
     THEN /\ lastTrade' = Attempt("add", "hook", "invalid")
          /\ Step("none", "none", "threw")
          /\ UNCHANGED tradeCalls
     ELSE /\ Cardinality(tradeCalls) < MaxTrades
          /\ tradeCalls' = tradeCalls \cup {TradeCall("add", "hook", ParseFloat(amount), NULL)}
          /\ lastTrade' = Attempt("add", "hook", "sent")
          /\ Step("none", "none", "none")
  /\ UNCHANGED <<currentAccount, fetchVars, appVars, addModalPos, addAmount, addSubmitting,
                 reduceModalPos, reduceShares, reduceSubmitting, formVars>>

(* usePositions.handleReducePosition(code, shares, maxShares, tradeTime)   *)
(* up to its await or its throw.                                           *)
HandleReducePosition(shares, maxShares) ==
  /\ UNCHANGED viewVars
  /\ reduceModalPos # NULL
  /\ IF NonPositive(shares)
     THEN /\ lastTrade' = Attempt("reduce", "hook", "invalid")
          /\ Step("none", "none", "threw")
          /\ UNCHANGED <<tradeCalls, alertBit>>
     ELSE IF ExceedsHolding(ParseFloat(shares), maxShares)
     THEN /\ lastTrade' = Attempt("reduce", "hook", "over")
          /\ alertBit' = ~alertBit
          /\ Step("none", "limit", "threw")
          /\ UNCHANGED tradeCalls
     ELSE /\ Cardinality(tradeCalls) < MaxTrades
          /\ tradeCalls' = tradeCalls \cup
               {TradeCall("reduce", "hook", ParseFloat(shares), maxShares)}
          /\ lastTrade' = Attempt("reduce", "hook", "sent")
          /\ alertBit' = alertBit
          /\ Step("none", "none", "none")
  /\ UNCHANGED <<currentAccount, fetchVars, sortVars, prefVars, watchlist, currentView,
                 detailFundId, syncLoading, details, ticks, interval,
                 addModalPos, addAmount, addSubmitting, reduceModalPos, reduceShares,
                 reduceSubmitting, formVars>>

(* The hook with its refetch left out.                                     *)
OnRefetchSkipped == UNCHANGED <<loading, error, inflight, chains, nextSeq>>

(* onRefetch && onRefetch(): the page passes its fetcher's refetch.        *)
OnRefetch == StartFetch(0, currentAccount)

(* The trade request of the hook resolved: alert, onRefetch(), return      *)
(* result.                                                                 *)
HookTradeOk(c, result) ==
  /\ UNCHANGED viewVars
  /\ c \in tradeCalls /\ c.via = "hook" /\ c.op \in {"add", "reduce"}
  /\ tradeCalls' = tradeCalls \ {c}
  /\ alertBit' = ~alertBit
  /\ Step(TradeAnswer(result), TradeNotice(result), "returned")
  /\ OnRefetch
  /\ UNCHANGED <<currentAccount, apiModule, data, timers, pollAccount, responses, lastOk,
                 maxOk, sortVars, prefVars, watchlist, currentView, detailFundId,
                 syncLoading, details, ticks, interval, addModalPos,
                 addAmount, addSubmitting, reduceModalPos, reduceShares,
                 reduceSubmitting, lastTrade, formVars>>

(* The trade request of the hook rejected: alert, rethrow.                 *)
HookTradeFail(c) ==
  /\ UNCHANGED viewVars
  /\ c \in tradeCalls /\ c.via = "hook" /\ c.op \in {"add", "reduce"}
  /\ tradeCalls' = tradeCalls \ {c}
  /\ alertBit' = ~alertBit
  /\ Step("rejected", "failed", "threw")
  /\ UNCHANGED <<currentAccount, fetchVars, sortVars, prefVars, watchlist, currentView,
                 detailFundId, syncLoading, details, ticks, interval,
                 addModalPos, addAmount, addSubmitting, reduceModalPos, reduceShares,
                 reduceSubmitting, lastTrade, formVars>>

(***************************************************************************)
(* Position operations: update, delete and update-nav, as usePositions     *)
(* with the handlers of pages/Account.jsx around it ("hook"), and as the   *)
(* page that holds its handlers inline ("form").                           *)
(***************************************************************************)
tradeFormVars == <<addModalPos, addAmount, addSubmitting, reduceModalPos, reduceShares,
                   reduceSubmitting>>

appQuiet == <<sortVars, prefVars, watchlist, currentView, detailFundId, syncLoading,
              details, ticks, interval>>

(* !formData.code || !formData.cost || !formData.shares                    *)
Missing(fd) == fd.code = 0 \/ Falsy(fd.cost) \/ Falsy(fd.shares)

(* updatePosition({ code, cost: parseFloat(cost), shares: parseFloat(shares) }, *)
(* currentAccount)                                                         *)
UpdateCall(via, fd) ==
  [op |-> "update", via |-> via, code |-> fd.code, cost |-> ParseFloat(fd.cost),
   shares |-> ParseFloat(fd.shares), account |-> currentAccount]

(* deletePosition(code, currentAccount) *)
DeleteCall(via, code) == [op |-> "delete", via |-> via, code |-> code, account |-> currentAccount]

(* updatePositionsNav(currentAccount) *)
NavCall(via) == [op |-> "nav", via |-> via, account |-> currentAccount]

(* onPositionChange && onPositionChange(code, type) *)
OnPositionChange == positionChanges' = positionChanges + 1

(* The "add position" button: handleOpenModal() with no position.          *)
HandleOpenModal ==
  /\ UNCHANGED viewVars
  /\ currentAccount # AGGREGATE
  /\ ~modalOpen
  /\ modalOpen' = TRUE
  /\ formData' = BlankForm
  /\ lastTrade' = NoAttempt
  /\ Step("none", "none", "none")
  /\ UNCHANGED <<currentAccount, fetchVars, appVars, tradeFormVars, tradeCalls, submitting,
                 navUpdating, positionChanges>>

(* The close button of the position modal: setModalOpen(false).            *)
CloseModal ==
  /\ UNCHANGED viewVars
  /\ modalOpen
  /\ modalOpen' = FALSE
  /\ lastTrade' = NoAttempt
  /\ Step("none", "none", "none")
  /\ UNCHANGED <<currentAccount, fetchVars, appVars, tradeFormVars, tradeCalls, formData,
                 submitting, navUpdating, positionChanges>>

(* onChange of an input of the position form: setFormData({...formData,    *)
(* [field]: e.target.value}).                                              *)
SetFormData(fd) ==
  /\ UNCHANGED viewVars
  /\ modalOpen
  /\ fd # formData
  /\ formData' = fd
  /\ lastTrade' = NoAttempt
  /\ Step("none", "none", "none")
  /\ UNCHANGED <<currentAccount, fetchVars, appVars, tradeFormVars, tradeCalls, modalOpen,
                 submitting, navUpdating, positionChanges>>

(* handleSubmit of the inline form up to its await or its early return.    *)
HandleSubmit ==
  /\ UNCHANGED viewVars
  /\ modalOpen
  /\ IF Missing(formData)
     THEN /\ lastTrade' = Attempt("update", "form", "invalid")
          /\ Step("none", "none", "returned")
          /\ UNCHANGED <<submitting, tradeCalls>>
     ELSE IF submitting
     THEN /\ lastTrade' = Attempt("update", "form", "busy")
          /\ Step("none", "none", "returned")
          /\ UNCHANGED <<submitting, tradeCalls>>
     ELSE /\ Cardinality(tradeCalls) < MaxTrades
          /\ submitting' = TRUE
          /\ tradeCalls' = tradeCalls \cup {UpdateCall("form", formData)}
          /\ lastTrade' = Attempt("update", "form", "sent")
          /\ Step("none", "none", "none")
  /\ UNCHANGED <<currentAccount, fetchVars, appVars, tradeFormVars, modalOpen, formData,
                 navUpdating, positionChanges>>

(* updatePosition resolved in handleSubmit: the modal closes,              *)
(* onPositionChange, fetchData(), and the flag is cleared.                 *)
SubmitOk(c) ==
  /\ UNCHANGED viewVars
  /\ c \in tradeCalls /\ c.via = "form" /\ c.op = "update"
  /\ tradeCalls' = tradeCalls \ {c}
  /\ modalOpen' = FALSE
  /\ OnPositionChange
  /\ StartFetch(0, currentAccount)
  /\ submitting' = FALSE
  /\ Step("ok", "none", "returned")
  /\ UNCHANGED <<currentAccount, apiModule, data, timers, pollAccount, responses, lastOk,
                 maxOk, appVars, tradeFormVars, lastTrade, formData, navUpdating>>

(* updatePosition rejected in handleSubmit: alert, the flag is cleared.    *)
SubmitFail(c) ==
  /\ UNCHANGED viewVars
  /\ c \in tradeCalls /\ c.via = "form" /\ c.op = "update"
  /\ tradeCalls' = tradeCalls \ {c}
  /\ alertBit' = ~alertBit
  /\ submitting' = FALSE
  /\ Step("rejected", "failed", "returned")
  /\ UNCHANGED <<currentAccount, fetchVars, appQuiet, tradeFormVars, lastTrade, modalOpen,
                 formData, navUpdating, positionChanges>>

(* handleSubmitPosition(formData) of the page calling the hook's           *)
(* handleUpdatePosition(formData), up to its await or its throw, which the *)
(* page answers with message.error.                                        *)
HandleUpdatePosition(fd) ==
  /\ UNCHANGED viewVars
  /\ IF Missing(fd)
     THEN /\ lastTrade' = Attempt("update", "hook", "invalid")
          /\ Step("none", "failed", "threw")
          /\ UNCHANGED <<submitting, tradeCalls>>
     ELSE /\ Cardinality(tradeCalls) < MaxTrades
          /\ submitting' = TRUE
          /\ tradeCalls' = tradeCalls \cup {UpdateCall("hook", fd)}
          /\ lastTrade' = Attempt("update", "hook", "sent")
          /\ Step("none", "none", "none")
  /\ UNCHANGED <<currentAccount, fetchVars, appVars, tradeFormVars, modalOpen, formData,
                 navUpdating, positionChanges>>

(* updatePosition resolved in handleUpdatePosition: onPositionChange,      *)
(* onRefetch(), the flag is cleared; the page closes the modal and shows   *)
(* message.success.                                                        *)
HookUpdateOk(c) ==
  /\ UNCHANGED viewVars
  /\ c \in tradeCalls /\ c.via = "hook" /\ c.op = "update"
  /\ tradeCalls' = tradeCalls \ {c}
  /\ OnPositionChange
  /\ OnRefetch
  /\ submitting' = FALSE
  /\ modalOpen' = FALSE
  /\ Step("ok", "saved", "returned")
  /\ UNCHANGED <<currentAccount, apiModule, data, timers, pollAccount, responses, lastOk,
                 maxOk, appVars, tradeFormVars, lastTrade, formData, navUpdating>>

(* updatePosition rejected in handleUpdatePosition: the flag is cleared    *)
(* and the rejection goes on to the page, which shows message.error.       *)
HookUpdateFail(c) ==
  /\ UNCHANGED viewVars
  /\ c \in tradeCalls /\ c.via = "hook" /\ c.op = "update"
  /\ tradeCalls' = tradeCalls \ {c}
  /\ submitting' = FALSE
  /\ Step("rejected", "failed", "threw")
  /\ UNCHANGED <<currentAccount, fetchVars, appVars, tradeFormVars, lastTrade, modalOpen,
                 formData, navUpdating, positionChanges>>

(* handleDeleteConfirm(code) of the page calling the hook's                *)
(* handleDeletePosition(code), up to its await or its return; confirmed is *)
(* the answer to confirm().  When the hook returns at once the page's      *)
(* await resolves and it shows message.success.                            *)
HandleDeletePosition(code, confirmed) ==
  /\ UNCHANGED viewVars
  /\ currentAccount # AGGREGATE
  /\ data # EmptyData
  /\ IF ~confirmed
     THEN /\ lastTrade' = Attempt("delete", "hook", "declined")
          /\ Step("none", "deleted", "returned")
          /\ UNCHANGED tradeCalls
     ELSE /\ Cardinality(tradeCalls) < MaxTrades
          /\ tradeCalls' = tradeCalls \cup {DeleteCall("hook", code)}
          /\ lastTrade' = Attempt("delete", "hook", "sent")
          /\ Step("none", "none", "none")
  /\ UNCHANGED <<currentAccount, fetchVars, appVars, tradeFormVars, formVars>>

(* deletePosition resolved in handleDeletePosition: onPositionChange,      *)
(* onRefetch(); the page shows message.success.                            *)
HookDeleteOk(c) ==
  /\ UNCHANGED viewVars
  /\ c \in tradeCalls /\ c.via = "hook" /\ c.op = "delete"
  /\ tradeCalls' = tradeCalls \ {c}
  /\ OnPositionChange
  /\ OnRefetch
  /\ Step("ok", "deleted", "returned")
  /\ UNCHANGED <<currentAccount, apiModule, data, timers, pollAccount, responses, lastOk,
                 maxOk, appVars, tradeFormVars, lastTrade, modalOpen, formData, submitting,
                 navUpdating>>

(* deletePosition rejected in handleDeletePosition: alert, rethrow; the    *)
(* page shows message.error.                                               *)
HookDeleteFail(c) ==
  /\ UNCHANGED viewVars
  /\ c \in tradeCalls /\ c.via = "hook" /\ c.op = "delete"
  /\ tradeCalls' = tradeCalls \ {c}
  /\ alertBit' = ~alertBit
  /\ Step("rejected", "failed", "threw")
  /\ UNCHANGED <<currentAccount, fetchVars, appQuiet, tradeFormVars, lastTrade, formVars>>

(* handleDelete(code) of the inline page up to its await or its return.    *)
HandleDelete(code, confirmed) ==
  /\ UNCHANGED viewVars
  /\ currentAccount # AGGREGATE
  /\ data # EmptyData
  /\ IF ~confirmed
     THEN /\ lastTrade' = Attempt("delete", "form", "declined")
          /\ Step("none", "none", "returned")
          /\ UNCHANGED tradeCalls
     ELSE /\ Cardinality(tradeCalls) < MaxTrades
          /\ tradeCalls' = tradeCalls \cup {DeleteCall("form", code)}
          /\ lastTrade' = Attempt("delete", "form", "sent")
          /\ Step("none", "none", "none")
  /\ UNCHANGED <<currentAccount, fetchVars, appVars, tradeFormVars, formVars>>

(* deletePosition resolved in handleDelete: onPositionChange, fetchData(). *)
DeleteOk(c) ==
  /\ UNCHANGED viewVars
  /\ c \in tradeCalls /\ c.via = "form" /\ c.op = "delete"
  /\ tradeCalls' = tradeCalls \ {c}
  /\ OnPositionChange
  /\ StartFetch(0, currentAccount)
  /\ Step("ok", "none", "returned")
  /\ UNCHANGED <<currentAccount, apiModule, data, timers, pollAccount, responses, lastOk,
                 maxOk, appVars, tradeFormVars, lastTrade, modalOpen, formData, submitting,
                 navUpdating>>

(* deletePosition rejected in handleDelete: alert.                         *)
DeleteFail(c) ==
  /\ UNCHANGED viewVars
  /\ c \in tradeCalls /\ c.via = "form" /\ c.op = "delete"
  /\ tradeCalls' = tradeCalls \ {c}
  /\ alertBit' = ~alertBit
  /\ Step("rejected", "failed", "returned")
  /\ UNCHANGED <<currentAccount, fetchVars, appQuiet, tradeFormVars, lastTrade, formVars>>

(* handleUpdateNav up to its await or its early return.                    *)
HandleUpdateNav(confirmed) ==
  /\ UNCHANGED viewVars
  /\ data # EmptyData
  /\ IF navUpdating
     THEN /\ lastTrade' = Attempt("nav", "hook", "busy")
          /\ Step("none", "none", "returned")
          /\ UNCHANGED <<navUpdating, tradeCalls>>
     ELSE IF ~confirmed
     THEN /\ lastTrade' = Attempt("nav", "hook", "declined")
          /\ Step("none", "none", "returned")
          /\ UNCHANGED <<navUpdating, tradeCalls>>
     ELSE /\ Cardinality(tradeCalls) < MaxTrades
          /\ navUpdating' = TRUE
          /\ tradeCalls' = tradeCalls \cup {NavCall("hook")}
          /\ lastTrade' = Attempt("nav", "hook", "sent")
          /\ Step("none", "none", "none")
  /\ UNCHANGED <<currentAccount, fetchVars, appVars, tradeFormVars, modalOpen, formData,
                 submitting, positionChanges>>

(* updatePositionsNav resolved: alert(msg), onRefetch(), the flag is       *)
(* cleared.                                                                *)
NavOk(c) ==
  /\ UNCHANGED viewVars
  /\ c \in tradeCalls /\ c.op = "nav"
  /\ tradeCalls' = tradeCalls \ {c}
  /\ alertBit' = ~alertBit
  /\ OnRefetch
  /\ navUpdating' = FALSE
  /\ Step("ok", "nav", "returned")
  /\ UNCHANGED <<currentAccount, apiModule, data, timers, pollAccount, responses, lastOk,
                 maxOk, appQuiet, tradeFormVars, lastTrade, modalOpen, formData, submitting,
                 positionChanges>>

(* updatePositionsNav rejected: alert, the flag is cleared.                *)
NavFail(c) ==
  /\ UNCHANGED viewVars
  /\ c \in tradeCalls /\ c.op = "nav"
  /\ tradeCalls' = tradeCalls \ {c}
  /\ alertBit' = ~alertBit
  /\ navUpdating' = FALSE
  /\ Step("rejected", "failed", "returned")
  /\ UNCHANGED <<currentAccount, fetchVars, appQuiet, tradeFormVars, lastTrade, modalOpen,
                 formData, submitting, positionChanges>>

(***************************************************************************)
(* The App after its first render: loadPreferences awaits getPreferences;  *)
(* the list view is shown and the Account page is not mounted.             *)
(***************************************************************************)
FetchIdle ==
  /\ apiModule = "v2"
  /\ data = EmptyData
  /\ loading = FALSE
  /\ error = NoError
  /\ inflight = {}
  /\ timers = {}
  /\ pollAccount = <<>>
  /\ nextSeq = 1
  /\ chains = <<>>
  /\ responses = 0
  /\ lastOk = EmptyData
  /\ maxOk = 0

(* What earlier sessions left in the remote store and in localStorage.     *)
StoredTexts == {JSONstringify(l) : l \in StoredLists}

RemoteStores ==
  [watchlist : {Absent} \cup StoredTexts, currentAccount : {NULL, 1, MaxAccount},
   sortOption : {NULL} \cup {MaxSort}]

LocalStores ==
  [watchlist : {Absent, Corrupt} \cup StoredTexts, account : {NULL, MaxAccount},
   sort : {NULL} \cup {MaxSort}]

AppMounted ==
  /\ currentAccount = IF Truthy(defaultAccountId) THEN defaultAccountId ELSE 1
  /\ watchlist = <<>>
  /\ preferencesLoaded = FALSE
  /\ loadPc = At("get")
  /\ currentView = "list"
  /\ detailFundId = NULL
  /\ syncLoading = FALSE
  /\ pushes = {}
  /\ nIssued = 0
  /\ lastWl = [id |-> 0, outcome |-> "none"]
  /\ migrated = FALSE
  /\ details = {}
  /\ ticks = {}
  /\ interval = <<>>
  /\ sortOption = 1
  /\ sortLoaded = FALSE
  /\ sortPc = "idle"
  /\ alertBit = FALSE
  /\ FetchIdle
  /\ TradeIdle

(* loadPreferences alone, from every combination of stored values.        *)
LoadInit ==
  /\ defaultAccountId \in {NULL, MaxAccount}
  /\ remote \in RemoteStores
  /\ localStore \in LocalStores
  /\ AppMounted

LoadNext ==
  \/ \E ok \in BOOLEAN : LoadPreferences(ok)
  \/ \E ok \in BOOLEAN : MigrateWatchlistDone(ok)
  \/ \E ok \in BOOLEAN : MigrateAccountDone(ok)
  \/ \E p \in pushes : PushOk(p)
  \/ \E p \in pushes : PushFail(p)

SpecLoad == LoadInit /\ [][LoadNext]_vars

(* The watchlist: loading, its handlers and the poll, for a new user and   *)
(* for users whose watchlist of two entries is stored remotely or only     *)
(* locally.  No handler of the watchlist reads the answer to a preference  *)
(* push or the remote store after the load, so the pushes the effects      *)
(* issue are left in flight here; SpecSync settles them.                   *)
WatchStores ==
  {[remote |-> Absent, local |-> Absent],
   [remote |-> JSONstringify(<<StoredFund(1, TRUE), StoredFund(1, FALSE)>>), local |-> Absent],
   [remote |-> Absent, local |-> JSONstringify(<<StoredFund(1, TRUE), StoredFund(MaxFund, FALSE)>>)]}

WatchInit ==
  /\ defaultAccountId = NULL
  /\ \E st \in WatchStores :
       /\ remote = [watchlist |-> st.remote, currentAccount |-> NULL, sortOption |-> NULL]
       /\ localStore = [watchlist |-> st.local, account |-> NULL, sort |-> NULL]
  /\ AppMounted

WatchNext ==
  \/ \E ok \in BOOLEAN : LoadPreferences(ok)
  \/ \E ok \in BOOLEAN : MigrateWatchlistDone(ok)
  \/ \E v \in {"list", "account"} : SetCurrentView(v)
  \/ HandleBack
  \/ \E id \in Funds : HandleSelectFund(id)
  \/ \E d \in details, snap \in Snaps : SelectFundResolved(d, snap)
  \/ \E d \in details : SelectFundRejected(d)
  \/ \E id \in Funds : HandleCardClick(id)
  \/ \E d \in details, snap \in Snaps : CardDetailResolved(d, snap)
  \/ \E d \in details : CardDetailRejected(d)
  \/ \E id \in Funds : RemoveFund(id)
  \/ \E ps \in PositionLists : HandleSyncWatchlist(ps)
  \/ \E d \in details : \E outcomes \in Outcomes(Len(d.ids)) : SyncResolved(d, outcomes)
  \/ TickFire
  \/ \E t \in ticks : \E outcomes \in Outcomes(Len(t.base)) : TickSettled(t, outcomes)
  \/ \E t \in ticks : TickResolved(t)

SpecWatch == WatchInit /\ [][WatchNext]_vars

(* Preference synchronisation: changes of the watchlist, of the account    *)
(* and of the sort option, for a new user, a user with remote preferences  *)
(* and a user with local ones only.                                        *)
SyncStores ==
  {[remote |-> Absent, local |-> Absent, account |-> NULL, sort |-> NULL],
   [remote |-> JSONstringify(<<StoredFund(1, TRUE), StoredFund(MaxFund, FALSE)>>),
    local |-> Absent, account |-> MaxAccount, sort |-> MaxSort],
   [remote |-> Absent,
    local |-> JSONstringify(<<StoredFund(1, TRUE), StoredFund(MaxFund, FALSE)>>),
    account |-> MaxAccount, sort |-> MaxSort]}

SyncInit ==
  /\ defaultAccountId = NULL
  /\ \E st \in SyncStores :
       /\ remote = [watchlist |-> st.remote,
                    currentAccount |-> IF st.remote = Absent THEN NULL ELSE st.account,
                    sortOption |-> IF st.remote = Absent THEN NULL ELSE st.sort]
       /\ localStore = [watchlist |-> st.local,
                        account |-> IF st.local = Absent THEN NULL ELSE st.account,
                        sort |-> IF st.local = Absent THEN NULL ELSE st.sort]
  /\ AppMounted

SyncNext ==
  \/ LoadNext
  \/ \E ok \in BOOLEAN : LoadSortPreference(ok)
  \/ \E ok \in BOOLEAN : SortMigrateDone(ok)
  \/ \E o \in SortOptions : SetSortOption(o)
  \/ \E v \in {"list", "account"} : SetCurrentView(v)
  \/ \E a \in Accounts : SwitchAccount(a)
  \/ \E id \in Funds : HandleSelectFund(id)
  \/ \E d \in details, snap \in Snaps : SelectFundResolved(d, snap)
  \/ \E d \in details : SelectFundRejected(d)
  \/ \E id \in Funds : RemoveFund(id)

SpecSync == SyncInit /\ [][SyncNext]_vars

(* The Account page with its trade forms, once its first fetch has         *)
(* resolved; the refetches the trades start are left in flight.  The       *)
(* trade modals of the hook-based page submit their amount or shares field *)
(* and, for a reduction, the shares of the position they were opened for.  *)
TradeInit ==
  /\ currentAccount \in {1, MaxAccount}
  /\ apiModule = "v2"
  /\ data = Payload([seq |-> 1, http |-> IssueGet(apiModule, currentAccount)])
  /\ loading = FALSE
  /\ error = NoError
  /\ inflight = {}
  /\ timers = {}
  /\ pollAccount = <<currentAccount>>
  /\ nextSeq = 2
  /\ chains = (1 :> [NewChain(0) EXCEPT !.ok = 1])
  /\ responses = 1
  /\ lastOk = data
  /\ maxOk = 1
  /\ AppIdle
  /\ TradeIdle

TradeNext ==
  \/ \E shares \in Holdings : HandleOpenAddModal(shares)
  \/ \E shares \in Holdings : HandleOpenReduceModal(shares)
  \/ CloseTradeModal
  \/ \E text \in NumberTexts : SetAddAmount(text)
  \/ \E text \in NumberTexts : SetReduceShares(text)
  \/ HandleAddSubmit
  \/ HandleReduceSubmit
  \/ \E c \in tradeCalls, result \in TradeResults : FormTradeOk(c, result)
  \/ \E c \in tradeCalls : FormTradeFail(c)
  \/ HandleAddPosition(addAmount)
  \/ HandleReducePosition(reduceShares, reduceModalPos)
  \/ \E c \in tradeCalls, result \in TradeResults : HookTradeOk(c, result)
  \/ \E c \in tradeCalls : HookTradeFail(c)

SpecTrade == TradeInit /\ [][TradeNext]_vars

(* The position operations of the hook and of the inline page on a loaded *)
(* Account page; the refetches they start are left in flight.              *)
OpsForms == {BlankForm, FormData(1, NumberText("", 1, 0), NumberText("", 1, 0))}

OpsAmounts == {Blank, NumberText("", 0, 5)}

OpsNext ==
  \/ \E fd \in OpsForms : HandleUpdatePosition(fd)
  \/ \E c \in tradeCalls : HookUpdateOk(c)
  \/ \E c \in tradeCalls : HookUpdateFail(c)
  \/ \E code \in Funds, confirmed \in BOOLEAN : HandleDeletePosition(code, confirmed)
  \/ \E c \in tradeCalls : HookDeleteOk(c)
  \/ \E c \in tradeCalls : HookDeleteFail(c)
  \/ \E code \in Funds, confirmed \in BOOLEAN : HandleDelete(code, confirmed)
  \/ \E c \in tradeCalls : DeleteOk(c)
  \/ \E c \in tradeCalls : DeleteFail(c)
  \/ \E confirmed \in BOOLEAN : HandleUpdateNav(confirmed)
  \/ \E c \in tradeCalls : NavOk(c)
  \/ \E c \in tradeCalls : NavFail(c)
  \/ \E shares \in Holdings : HandleOpenAddModal(shares)
  \/ \E shares \in Holdings : HandleOpenReduceModal(shares)
  \/ CloseTradeModal
  \/ \E amount \in OpsAmounts : HandleAddPosition(amount)
  \/ \E shares \in OpsAmounts : HandleReducePosition(shares, reduceModalPos)
  \/ \E c \in tradeCalls, result \in TradeResults : HookTradeOk(c, result)
  \/ \E c \in tradeCalls : HookTradeFail(c)

SpecOps == TradeInit /\ [][OpsNext]_vars

(* The position form: the inline page's, and the hook called with the      *)
(* fields of the form.                                                     *)
FormTexts == {Blank, NumberText("", 1, 0), NumberText("-", 1, 0)}

FormDatas == {FormData(c, co, sh) : c \in {0, 1}, co \in FormTexts, sh \in FormTexts}

FormNext ==
  \/ HandleOpenModal
  \/ CloseModal
  \/ \E fd \in FormDatas : SetFormData(fd)
  \/ HandleSubmit
  \/ \E c \in tradeCalls : SubmitOk(c)
  \/ \E c \in tradeCalls : SubmitFail(c)
  \/ modalOpen /\ HandleUpdatePosition(formData)
  \/ \E c \in tradeCalls : HookUpdateOk(c)
  \/ \E c \in tradeCalls : HookUpdateFail(c)

SpecForm == TradeInit /\ [][FormNext]_vars

(***************************************************************************)
(* Claims about the Account Data Fetcher.                                  *)
(***************************************************************************)
ChainPending(c) ==
  \/ \E r \in inflight : r.kind = "fetch" /\ r.chain = c
  \/ \E t \in timers : t.chain = c

(* C1: a fetch started with retry count 0 whose attempts all fail issues   *)
(* exactly 3 requests; the retry after the first failure is armed with a   *)
(* delay of 1000 ms and the one after the second with 2000 ms; the error   *)
(* is set only by the third failure, and nothing of the fetch is pending   *)
(* afterwards.                                                             *)
FetcherRetryThreeAttempts ==
  \A c \in DOMAIN chains :
    (chains[c].start = 0 /\ chains[c].ok = 0) =>
      /\ chains[c].issued <= 3
      /\ \A t \in timers : t.chain = c =>
           /\ chains[c].failed \in {1, 2}
           /\ t.retryCount = chains[c].failed
           /\ chains[c].issued = chains[c].failed
           /\ (chains[c].failed = 1 => t.delay = 1000)
           /\ (chains[c].failed = 2 => t.delay = 2000)
      /\ (chains[c].err =>
            chains[c].failed = 3 /\ chains[c].issued = 3 /\ ~ChainPending(c))
      /\ ((chains[c].failed > 0 /\ ~ChainPending(c)) =>
            chains[c].issued = 3 /\ chains[c].failed = 3 /\ chains[c].err)

FetcherRetryExhausted ==
  \E c \in DOMAIN chains :
    /\ chains[c].start = 0 /\ chains[c].failed = 3 /\ chains[c].issued = 3
    /\ chains[c].err /\ error = LoadFailed

(* C2: every positions request issued is either still in flight or has    *)
(* been answered (none is cancelled), and the data state is the payload of *)
(* the successful response that resolved last, whichever request it        *)
(* answers.                                                                *)
NoCancelLastResolvedWins ==
  /\ Cardinality(inflight) + responses = nextSeq - 1
  /\ data = lastOk

(* A response to an older request, issued for another account than the    *)
(* selected one, overwrote the response to a newer request.                *)
StaleResponseWon ==
  /\ apiModule = "v1"
  /\ data.seq > 0 /\ data.seq < maxOk
  /\ data.scope # currentAccount

(* C7: every positions request names the account id it was issued for,    *)
(* and the aggregate endpoint is requested only for account id 0.          *)
RequestIdentifiesAccount ==
  /\ \A r \in inflight :
       /\ (r.http.path = "/positions/aggregate" \/ r.http.account_id = r.account)
       /\ (r.http.path = "/positions/aggregate" => r.account = AGGREGATE)
  /\ \A r1, r2 \in inflight : r1.account # r2.account => r1.http # r2.http

(***************************************************************************)
(* Claims about loadPreferences, the watchlist and the preference pushes.  *)
(***************************************************************************)
WlPushes(S) == {p \in S : p.field = "watchlist"}

Issued == {p \in pushes' : p.id > nIssued}

NoDuplicateIds(list) == \A i, j \in 1..Len(list) : list[i].id = list[j].id => i = j

(* result is list without the entries whose id occurred earlier in list.   *)
KeepsFirst(result, list) ==
  /\ NoDuplicateIds(result)
  /\ Ids(result) = Ids(list)
  /\ \E f \in [1..Len(result) -> 1..Len(list)] :
       /\ \A k, m \in 1..Len(result) : k < m => f[k] < f[m]
       /\ \A k \in 1..Len(result) :
            /\ result[k] = list[f[k]]
            /\ \A j \in 1..(f[k] - 1) : list[j].id # result[k].id

(* C3: when the remote watchlist is empty and localStorage holds one, the  *)
(* load adopts the local list (deduplicated) and issues exactly one        *)
(* watchlist push: the step that adopts it issues one, and no later step   *)
(* of that load issues another.                                            *)
MigrationPushesOnce ==
  [][/\ (~migrated /\ migrated') =>
          /\ watchlist' = Dedup(JSONparse(localStore.watchlist), {})
          /\ Cardinality(WlPushes(Issued)) = 1
     /\ (migrated /\ ~preferencesLoaded) => WlPushes(Issued) = {}]_vars

PreferenceSyncOnePush ==
  [][/\ (preferencesLoaded /\ watchlist' # watchlist) =>
          \E p \in Issued :
            /\ p.field = "watchlist" /\ p.wl = JSONstringify(watchlist')
            /\ \A q \in Issued : q.field = "watchlist" => q = p
     /\ (preferencesLoaded /\ currentAccount' # currentAccount) =>
          \E p \in Issued :
            /\ p.field = "currentAccount" /\ p.acct = currentAccount'
            /\ \A q \in Issued : q.field = "currentAccount" => q = p
     /\ (sortLoaded /\ sortLoaded' /\ sortOption' # sortOption) =>
          \E p \in Issued :
            /\ p.field = "sortOption" /\ p.sort = sortOption'
            /\ \A q \in Issued : q.field = "sortOption" => q = p
     /\ \A p \in pushes :
          (~p.awaited /\ \A q \in pushes' : q.id # p.id) =>
            /\ remote' \in {remote, Apply(p)}
            /\ Issued = {}
            /\ UNCHANGED <<watchlist, currentAccount, sortOption, preferencesLoaded,
                           sortLoaded, currentView, alertBit, details, interval>>]_vars

(* C8 witness: the push of the latest watchlist change failed; nothing is  *)
(* in flight, no alert was shown, the list is kept and the remote store    *)
(* holds another value.                                                    *)
SyncFailureOnlyLogged ==
  /\ preferencesLoaded
  /\ lastWl.outcome = "fail"
  /\ pushes = {}
  /\ ~alertBit
  /\ watchlist # <<>>
  /\ remote.watchlist # JSONstringify(watchlist)

(* C9: with the preferences loaded, no watchlist push in flight and the    *)
(* push of the latest watchlist change answered with success, the remote   *)
(* watchlist is the local one.                                             *)
RemoteWatchlistConverges ==
  (preferencesLoaded /\ WlPushes(pushes) = {} /\ lastWl.outcome = "ok")
    => remote.watchlist = JSONstringify(watchlist)

(* C10: the step in which a tick resolves sets a watchlist of the length   *)
(* and id order of the list the tick started from; an entry whose request  *)
(* failed is that list's entry, an entry whose request succeeded carries   *)
(* the fresh detail, whatever happened to the other entries.               *)
TickMergesPerItem ==
  [][\A t \in ticks :
       (t.outcomes # <<>> /\ t \notin ticks') =>
         /\ Len(watchlist') = Len(t.base)
         /\ \A i \in 1..Len(t.base) :
              /\ watchlist'[i].id = t.base[i].id
              /\ t.outcomes[i] = 0 => watchlist'[i] = t.base[i]
              /\ t.outcomes[i] # 0 =>
                   /\ watchlist'[i].snap = t.outcomes[i]
                   /\ watchlist'[i].trusted = t.base[i].trusted]_vars

(* C10 witness: a tick has resolved that kept a stored entry (no snapshot) *)
(* and refreshed another (only a tick gives a snapshot to an entry that is *)
(* not trusted).                                                           *)
MixedTickApplied ==
  /\ ticks = {}
  /\ \E i, j \in 1..Len(watchlist) :
       /\ watchlist[i].snap = 0
       /\ watchlist[j].snap > 0 /\ ~watchlist[j].trusted

(***************************************************************************)
(* Claims about the trade forms.                                           *)
(***************************************************************************)
(* C5: no reduce request in flight asks for more than the holding it was   *)
(* validated against, and a submission of positive shares above the        *)
(* holding is not sent.                                                    *)
ReduceOverHoldingRejected ==
  /\ \A c \in tradeCalls : c.op = "reduce" => c.value <= c.max
  /\ (/\ lastTrade.op = "reduce"
      /\ reduceModalPos # NULL
      /\ ~reduceShares.blank
      /\ ParseFloat(reduceShares) > 0
      /\ ParseFloat(reduceShares) > reduceModalPos)
       => lastTrade.outcome \in {"over", "busy"}

(* C5 witness: handleReducePosition was called with positive shares above  *)
(* the holding, alerted and threw; nothing was sent.                       *)
ReduceOverHoldingBlocked ==
  /\ lastTrade = Attempt("reduce", "hook", "over")
  /\ ParseFloat(reduceShares) > reduceModalPos
  /\ tradeCalls = {}
  /\ alertBit

(* C6: every trade request carries a value above zero; a submission of an  *)
(* empty or non-positive amount or shares ends as invalid, and one that    *)
(* was sent had a parsed value above zero.                                 *)
NonPositiveNeverSent ==
  /\ \A c \in tradeCalls : c.value > 0
  /\ (lastTrade.op = "add" /\ (addAmount.blank \/ ParseFloat(addAmount) <= 0))
       => lastTrade.outcome = "invalid"
  /\ (lastTrade.op = "reduce" /\ (reduceShares.blank \/ ParseFloat(reduceShares) <= 0))
       => lastTrade.outcome = "invalid"
  /\ (lastTrade.op = "add" /\ lastTrade.outcome = "sent")
       => (~addAmount.blank /\ ParseFloat(addAmount) > 0)
  /\ (lastTrade.op = "reduce" /\ lastTrade.outcome = "sent")
       => (~reduceShares.blank /\ ParseFloat(reduceShares) > 0)

(* C6 witness: handleAddPosition was called with an amount that is not     *)
(* empty and parses to zero, and threw; nothing was sent.                  *)
ZeroAmountBlocked ==
  /\ lastTrade = Attempt("add", "hook", "invalid")
  /\ ~addAmount.blank
  /\ ParseFloat(addAmount) = 0
  /\ tradeCalls = {}

(***************************************************************************)
(* The two polling timers together: the App with the Account page it       *)
(* mounts while the view is 'account'.  The page's requests are left in    *)
(* flight (a response changes no timer), and so are the preference pushes. *)
(***************************************************************************)
(* The Account page in a step of the App.  Entering the account view      *)
(* mounts the page: its effects call fetchData() and arm the positions     *)
(* poll.  Leaving the view unmounts it: the cleanup clears the poll.  A    *)
(* change of currentAccount while it is mounted runs both effects again.   *)
AccountPageEffects ==
  IF currentView' = "account" /\ currentView # "account"
  THEN /\ StartFetch(0, currentAccount')
       /\ data' = EmptyData
       /\ pollAccount' = SetPollInterval(pollAccount, TRUE, currentAccount')
       /\ UNCHANGED <<apiModule, timers, responses, lastOk, maxOk>>
  ELSE IF currentView' # "account" /\ currentView = "account"
  THEN /\ pollAccount' = SetPollInterval(pollAccount, FALSE, currentAccount')
       /\ UNCHANGED <<apiModule, data, loading, error, inflight, timers, nextSeq, chains,
                      responses, lastOk, maxOk>>
  ELSE IF currentView = "account" /\ currentAccount' # currentAccount
  THEN /\ StartFetch(0, currentAccount')
       /\ pollAccount' = SetPollInterval(pollAccount, TRUE, currentAccount')
       /\ UNCHANGED <<apiModule, data, timers, responses, lastOk, maxOk>>
  ELSE UNCHANGED fetchVars

(* await getPreferences() resolves, with the Account page.                 *)
LoadPreferencesMounted(ok) ==
  /\ LoadPreferencesStep(ok)
  /\ AccountPageEffects

(* A navigation button, with the Account page it mounts or unmounts.       *)
SetCurrentViewMounting(view2) ==
  /\ currentView # "detail"
  /\ view2 # currentView
  /\ currentView' = view2
  /\ SortAfterView(view2)
  /\ pushes' = PushesAfterView(view2)
  /\ UNCHANGED <<currentAccount, tradeVars, watchlist, detailFundId, syncLoading, details,
                 ticks, interval, alertBit, preferencesLoaded, loadPc, defaultAccountId,
                 remote, localStore, nIssued, lastWl, migrated>>
  /\ AccountPageEffects

(* The account selector, with the effects of the mounted Account page.     *)
SwitchAccountMounted(a) ==
  /\ currentView = "account"
  /\ a # currentAccount
  /\ Render(FALSE, watchlist, a, preferencesLoaded, <<>>)
  /\ UNCHANGED <<tradeVars, sortVars, currentView, detailFundId, syncLoading, details,
                 ticks, alertBit, loadPc, defaultAccountId, remote, localStore, migrated>>
  /\ AccountPageEffects

(* A new user, and a user with one fund stored remotely.                   *)
PollStores == {Absent, JSONstringify(<<StoredFund(1, TRUE)>>)}

PollInit ==
  /\ defaultAccountId = NULL
  /\ \E text \in PollStores :
       remote = [watchlist |-> text, currentAccount |-> NULL, sortOption |-> NULL]
  /\ localStore = [watchlist |-> Absent, account |-> NULL, sort |-> NULL]
  /\ AppMounted

PollNext ==
  \/ \E ok \in BOOLEAN : LoadPreferencesMounted(ok)
  \/ \E v \in {"list", "account"} : SetCurrentViewMounting(v)
  \/ \E a \in Accounts : SwitchAccountMounted(a)
  \/ \E id \in Funds : HandleSelectFund(id)
  \/ \E d \in details, snap \in Snaps : SelectFundResolved(d, snap)
  \/ \E id \in Funds : RemoveFund(id)
  \/ TickFire
  \/ \E t \in ticks : \E outcomes \in Outcomes(Len(t.base)) : TickSettled(t, outcomes)
  \/ \E t \in ticks : TickResolved(t)
  \/ PollFire

SpecPoll == PollInit /\ [][PollNext]_vars

(***************************************************************************)
(* Claims about the polling timers.                                        *)
(***************************************************************************)
(* C11: exactly one watchlist interval is armed while the watchlist is not *)
(* empty and none while it is empty, and its tick maps over the current    *)
(* list; exactly one positions interval is armed while the view is         *)
(* 'account' and none otherwise, and it polls the current account.         *)
PollingLifecycle ==
  /\ Len(interval) = (IF watchlist # <<>> THEN 1 ELSE 0)
  /\ \A i \in 1..Len(interval) : interval[i].list = watchlist
  /\ Len(pollAccount) = (IF currentView = "account" THEN 1 ELSE 0)
  /\ \A i \in 1..Len(pollAccount) : pollAccount[i] = currentAccount

(* C11 witness: in the account view, after the account was switched and    *)
(* the watchlist grew to two funds, one interval of each kind is armed.    *)
TimersRearmed ==
  /\ currentView = "account"
  /\ currentAccount = MaxAccount
  /\ Len(watchlist) = 2
  /\ Len(interval) = 1
  /\ pollAccount = <<MaxAccount>>
  /\ nextSeq > 2

(***************************************************************************)
(* Claims about the terminal error of the fetcher.                         *)
(***************************************************************************)
(* C12: a fetch that set the error has nothing pending, and if none of its *)
(* attempts succeeded it made 3 of them, whether it was started by the     *)
(* page, by the retry button or by the refresh button; and the error is    *)
(* cleared only by a step that starts a new fetch.                         *)
ManualRefetchRunsFullSequence ==
  /\ [](\A c \in DOMAIN chains :
          /\ chains[c].err => ~ChainPending(c)
          /\ (chains[c].err /\ chains[c].ok = 0) =>
               (chains[c].issued = 3 /\ chains[c].failed = 3))
  /\ [][(error # NoError /\ error' = NoError) => DOMAIN chains' # DOMAIN chains]_vars

(***************************************************************************)
(* Claims about the outcomes of position operations.                       *)
(***************************************************************************)
(* The step started fetchData() for the current account, once.             *)
FetcherInvokedOnce ==
  /\ nextSeq' = nextSeq + 1
  /\ \E r \in inflight' \ inflight :
       /\ inflight' = inflight \cup {r}
       /\ r.kind = "fetch" /\ r.retryCount = 0 /\ r.account = currentAccount

FetcherNotInvoked == nextSeq' = nextSeq /\ inflight' = inflight

(* C13: a step in which an add or reduce request is answered with pending  *)
(* shows the pending notice, returns and starts the fetcher; the failure   *)
(* notice is shown, and a handler that awaited an answer throws, only when *)
(* the request was rejected; a rejected request shows the failure notice,  *)
(* starts no fetch, and the hook's handler throws.                         *)
PendingIsNotFailure ==
  [][\A c \in tradeCalls \ tradeCalls' :
       c.op \in {"add", "reduce"} =>
         /\ answer' \in {"pending", "confirmed", "rejected"}
         /\ answer' = "pending" =>
              (notice' = "pending" /\ ended' = "returned" /\ FetcherInvokedOnce)
         /\ (notice' = "failed" \/ ended' = "threw") => answer' = "rejected"
         /\ answer' = "rejected" =>
              /\ notice' = "failed"
              /\ FetcherNotInvoked
              /\ (c.via = "hook" => ended' = "threw")]_vars

(* C13 witness: handleAddPosition's request was answered with pending: the *)
(* pending notice is up, the call returned and the refetch is in flight.   *)
PendingResultReturned ==
  /\ lastTrade = Attempt("add", "hook", "sent")
  /\ answer = "pending" /\ notice = "pending" /\ ended = "returned"
  /\ tradeCalls = {}
  /\ \E r \in inflight : r.kind = "fetch" /\ r.seq = nextSeq - 1

(***************************************************************************)
(* Claims about the position operations.                                   *)
(***************************************************************************)
(* The mutation whose response this step hands to its handler.             *)
Answered == tradeCalls \ tradeCalls'

(* C14: after each successful position mutation (update, delete, add-lot,  *)
(* reduce-lot, update-nav) the fetcher is invoked exactly once, in the     *)
(* step that receives the mutation's response; a step that receives a      *)
(* rejection, and a step that receives no response at all (a submission    *)
(* that sends its request, is rejected by validation or is declined),      *)
(* does not invoke the fetcher.                                            *)
RefetchAfterMutation ==
  [][/\ \A c \in Answered :
          /\ answer' \in {"ok", "pending", "confirmed"} => FetcherInvokedOnce
          /\ answer' = "rejected" => FetcherNotInvoked
     /\ Answered = {} => FetcherNotInvoked]_vars

(* A delete of the hook has just been answered with a success, after       *)
(* another successful mutation, and the fetcher has run once for each.     *)
MutationRefetched ==
  /\ answer = "ok"
  /\ lastTrade = Attempt("delete", "hook", "sent")
  /\ positionChanges = 2
  /\ Cardinality(inflight) = 2


(* C15: a delete request is issued only by a delete that the user has      *)
(* confirmed; a declined delete issues no request, starts no fetch, calls  *)
(* no onPositionChange, leaves the positions as they are and shows         *)
(* nothing; a rejected delete request shows the failure notice, is not     *)
(* sent again, and neither onPositionChange nor the fetcher is invoked.    *)
DeleteConfirmedOrNothing ==
  [][/\ \A c \in tradeCalls' \ tradeCalls :
          c.op = "delete" => lastTrade' = Attempt("delete", c.via, "sent")
     /\ (lastTrade'.op = "delete" /\ lastTrade'.outcome = "declined" /\ answer' = "none") =>
          /\ tradeCalls' = tradeCalls
          /\ FetcherNotInvoked
          /\ positionChanges' = positionChanges
          /\ data' = data
          /\ notice' = "none"
     /\ \A c \in Answered :
          (c.op = "delete" /\ answer' = "rejected") =>
            /\ notice' = "failed"
            /\ tradeCalls' = tradeCalls \ {c}
            /\ FetcherNotInvoked
            /\ positionChanges' = positionChanges]_vars


(***************************************************************************)
(* The rows of the Account page: sortPositions of usePositions applied to  *)
(* the positions of the fetcher's data, for one account or the aggregate.  *)
(***************************************************************************)
(* A position of the response; nav_market_value is the field that          *)
(* SORT_OPTIONS[0] and SORT_OPTIONS[1] sort by, NULL when the response     *)
(* has none.                                                               *)
Position(code, shares, cost, value) ==
  [code |-> code, shares |-> shares, cost |-> cost, nav_market_value |-> value]

Positions ==
  {Position(c, sh, 1, v) : c \in Funds, sh \in 1..2, v \in {NULL, 0, 1, 2}}

(* a[sortOption.key] || 0 *)
OrZero(value) == IF value = NULL THEN 0 ELSE value

(* sortOption.direction of SORT_OPTIONS[option - 1] *)
Direction(option) == IF option % 2 = 1 THEN "desc" ELSE "asc"

(* The comparator of sortPositions.                                        *)
Compare(a, b, option) ==
  IF Direction(option) = "desc"
  THEN OrZero(b.nav_market_value) - OrZero(a.nav_market_value)
  ELSE OrZero(a.nav_market_value) - OrZero(b.nav_market_value)

(* Array.prototype.sort is stable: a row goes behind the rows that the     *)
(* comparator does not put after it.                                       *)
RECURSIVE Insert(_, _, _)
Insert(list, row, option) ==
  IF list = <<>> THEN <<row>>
  ELSE IF Compare(Head(list), row, option) <= 0
  THEN <<Head(list)>> \o Insert(Tail(list), row, option)
  ELSE <<row>> \o list

RECURSIVE Sort(_, _)
Sort(list, option) ==
  IF list = <<>> THEN <<>>
  ELSE Insert(Sort(SubSeq(list, 1, Len(list) - 1), option), list[Len(list)], option)

(* positions.sort(...) on the list itself: the argument is sorted too.     *)
sortPositionsInPlace(list, option) ==
  [positions |-> Sort(list, option), sorted |-> Sort(list, option)]

(* [...positions].sort(...): the argument after the call, and the result.  *)
sortPositions(list, option) ==
  [positions |-> list, sorted |-> Sort(list, option)]

(* A render of the Account page: const sortedPositions =                   *)
(* sortPositions(displayPositions), whatever currentAccount is.            *)
RenderAccount ==
  /\ LET result == sortPositions(displayPositions, sortOption)
     IN /\ displayPositions' = result.positions
        /\ sortedPositions' = result.sorted
  /\ UNCHANGED <<currentAccount, fetchVars, appVars, addModalPos, addAmount, addSubmitting,
                 reduceModalPos, reduceShares, reduceSubmitting, tradeCalls, lastTrade,
                 formVars, stepVars, ledger, accounts, searchVars, analyzeVars>>

(* The page has the positions of its account, or of the aggregate, and a   *)
(* sort option, and is about to render.                                    *)
ViewInit ==
  /\ currentAccount \in {AGGREGATE, 1}
  /\ apiModule = "v2"
  /\ data = Payload([seq |-> 1, http |-> IssueGet(apiModule, currentAccount)])
  /\ loading = FALSE
  /\ error = NoError
  /\ inflight = {}
  /\ timers = {}
  /\ pollAccount = <<currentAccount>>
  /\ nextSeq = 2
  /\ chains = (1 :> [NewChain(0) EXCEPT !.ok = 1])
  /\ responses = 1
  /\ lastOk = data
  /\ maxOk = 1
  /\ \E sort \in SortOptions : AppIdleWith(sort)
  /\ FormsIdle
  /\ displayPositions \in SeqsUpTo(Positions, MaxRows)
  /\ sortedPositions = <<>>
  /\ ledger = <<>>
  /\ accounts = AccountsPending
  /\ SearchIdle
  /\ AnalyzeIdle

ViewNext == RenderAccount

SpecView == ViewInit /\ [][ViewNext]_vars

(* How often a row occurs in a list.                                       *)
Count(row, list) == Cardinality({i \in 1..Len(list) : list[i] = row})

UpdatePayloadNonNegative ==
  [][\A c \in tradeCalls' \ tradeCalls :
       c.op = "update" => /\ c.shares >= 0
                          /\ c.cost >= 0
                          /\ ~Missing(formData)]_vars


(***************************************************************************)
(* GET /positions/aggregate: the server merges the positions that the      *)
(* accounts hold of one fund code.  The handler is not among the sources;  *)
(* it is modelled after the specification, as a loop over the accounts     *)
(* that merges one position after the other into the row of its code.      *)
(* Costs are exact ratios.                                                 *)
(***************************************************************************)
(* The position one account holds.                                         *)
Lot(code, shares, cost) == [code |-> code, shares |-> shares, cost |-> cost]

Lots == {Lot(c, sh, co) : c \in Funds, sh \in {50, 100}, co \in {1, 2}}

Ratio(num, den) == [num |-> num, den |-> den]

(* The first position of a code starts its row.                            *)
FirstRow(lot) == [code |-> lot.code, shares |-> lot.shares, cost |-> Ratio(lot.cost, 1)]

(* A merge that averages the two costs without their shares.               *)
MergeRowPlainAverage(row, lot) ==
  [code |-> row.code,
   shares |-> row.shares + lot.shares,
   cost |-> Ratio(row.cost.num + lot.cost * row.cost.den, 2 * row.cost.den)]

(* Shares add up; the cost is the shares-weighted average of the row's     *)
(* cost and the position's.                                                *)
MergeRow(row, lot) ==
  [code |-> row.code,
   shares |-> row.shares + lot.shares,
   cost |-> Ratio(row.shares * row.cost.num + lot.shares * lot.cost * row.cost.den,
                  row.cost.den * (row.shares + lot.shares))]

(* One position merged into the rows so far.                               *)
MergeInto(rows, lot) ==
  IF \E i \in 1..Len(rows) : rows[i].code = lot.code
  THEN [i \in 1..Len(rows) |->
          IF rows[i].code = lot.code THEN MergeRow(rows[i], lot) ELSE rows[i]]
  ELSE Append(rows, FirstRow(lot))

RECURSIVE AggregatePositions(_)
AggregatePositions(lots) ==
  IF lots = <<>> THEN <<>>
  ELSE MergeInto(AggregatePositions(SubSeq(lots, 1, Len(lots) - 1)), lots[Len(lots)])

(* The aggregate is fetched: the response carries the merged rows.         *)
ServeAggregate ==
  /\ currentAccount = AGGREGATE
  /\ ledger # <<>>
  /\ displayPositions' = AggregatePositions(ledger)
  /\ UNCHANGED <<currentAccount, fetchVars, appVars, addModalPos, addAmount, addSubmitting,
                 reduceModalPos, reduceShares, reduceSubmitting, tradeCalls, lastTrade,
                 formVars, stepVars, sortedPositions, ledger, accounts, searchVars,
                 analyzeVars>>

AggregateInit ==
  /\ currentAccount = AGGREGATE
  /\ FetchIdle
  /\ AppIdle
  /\ FormsIdle
  /\ displayPositions = <<>>
  /\ sortedPositions = <<>>
  /\ ledger \in SeqsUpTo(Lots, MaxLedger)
  /\ accounts = AccountsPending
  /\ SearchIdle
  /\ AnalyzeIdle

AggregateNext == ServeAggregate

SpecAggregate == AggregateInit /\ [][AggregateNext]_vars

RECURSIVE SumShares(_, _)
SumShares(code, lots) ==
  IF lots = <<>> THEN 0
  ELSE SumShares(code, Tail(lots)) + (IF Head(lots).code = code THEN Head(lots).shares ELSE 0)

RECURSIVE SumSharesTimesCost(_, _)
SumSharesTimesCost(code, lots) ==
  IF lots = <<>> THEN 0
  ELSE SumSharesTimesCost(code, Tail(lots))
       + (IF Head(lots).code = code THEN Head(lots).shares * Head(lots).cost ELSE 0)

(* C18: the aggregate has one row for each fund code that an account       *)
(* holds; its shares are the sum of the shares of the positions of that    *)
(* code, and its cost is the sum of shares x cost of those positions       *)
(* divided by the sum of their shares.                                     *)
WeightedCostOfAggregate ==
  displayPositions # <<>> =>
    /\ \A i, j \in 1..Len(displayPositions) :
         displayPositions[i].code = displayPositions[j].code => i = j
    /\ {displayPositions[i].code : i \in 1..Len(displayPositions)}
         = {ledger[i].code : i \in 1..Len(ledger)}
    /\ \A i \in 1..Len(displayPositions) :
         LET row == displayPositions[i]
         IN /\ row.shares = SumShares(row.code, ledger)
            /\ row.cost.den # 0
            /\ row.cost.num * SumShares(row.code, ledger)
                 = row.cost.den * SumSharesTimesCost(row.code, ledger)

(* 100 shares at 1.0 and 50 shares at 2.0 of one fund, in two accounts,    *)
(* are served as 150 shares at 4/3.                                        *)
MergedToFourThirds ==
  /\ ledger = <<Lot(1, 100, 1), Lot(1, 50, 2)>>
  /\ Len(displayPositions) = 1
  /\ displayPositions[1].shares = 150
  /\ 3 * displayPositions[1].cost.num = 4 * displayPositions[1].cost.den


(***************************************************************************)
(* The preferences when the GET /preferences requests of a session fail:   *)
(* both loads see the answer of getPreferences to a failure; the user      *)
(* only moves between the views.                                           *)
(***************************************************************************)
LoadFailNext ==
  \/ LoadPreferences(FALSE)
  \/ \E v \in {"list", "account"} : SetCurrentView(v)
  \/ LoadSortPreference(FALSE)
  \/ \E ok \in BOOLEAN : MigrateWatchlistDone(ok)
  \/ \E ok \in BOOLEAN : MigrateAccountDone(ok)
  \/ \E ok \in BOOLEAN : SortMigrateDone(ok)
  \/ \E p \in pushes : PushOk(p)
  \/ \E p \in pushes : PushFail(p)

SpecLoadFail == SyncInit /\ [][LoadFailNext]_vars

(* C19: when the preference loads fail, no updatePreferences call is       *)
(* issued and the remote preferences stay as they were.                    *)
FailedLoadWritesNothing ==
  [][nIssued' = nIssued /\ pushes' \subseteq pushes /\ remote' = remote]_vars


(* C20: the step in which a polling tick resolves leaves in the watchlist  *)
(* exactly the funds that were in it, whatever the user added or removed   *)
(* while the tick's requests were in flight, and a watchlist it pushes to  *)
(* the remote store holds exactly those funds.                             *)
PollKeepsUserChanges ==
  [][\A t \in ticks :
       (t \notin ticks' /\ t.outcomes # <<>>) =>
         /\ Ids(watchlist') = Ids(watchlist)
         /\ \A p \in pushes' \ pushes :
              p.field = "watchlist" => Ids(JSONparse(p.wl)) = Ids(watchlist)]_vars


(***************************************************************************)
(* The Account page while the preference load of the App is still          *)
(* pending: the page is shown for account 1 with its positions, and        *)
(* localStorage holds the aggregate as the account to restore.  The        *)
(* buttons that open a modal or delete are rendered only if                *)
(* !isAggregatedView; the modals themselves are rendered whatever the      *)
(* account is.  The account selector is taken to be out of reach while a   *)
(* modal is open.                                                          *)
(***************************************************************************)
NoModalOpen == ~modalOpen /\ addModalPos = NULL /\ reduceModalPos = NULL

ReadOnlyInit ==
  /\ currentAccount = 1
  /\ apiModule = "v2"
  /\ data = Payload([seq |-> 1, http |-> IssueGet(apiModule, currentAccount)])
  /\ loading = FALSE
  /\ error = NoError
  /\ inflight = {}
  /\ timers = {}
  /\ pollAccount = <<currentAccount>>
  /\ nextSeq = 2
  /\ chains = (1 :> [NewChain(0) EXCEPT !.ok = 1])
  /\ responses = 1
  /\ lastOk = data
  /\ maxOk = 1
  /\ watchlist = <<>>
  /\ preferencesLoaded = FALSE
  /\ loadPc = At("get")
  /\ currentView = "account"
  /\ detailFundId = NULL
  /\ syncLoading = FALSE
  /\ defaultAccountId = NULL
  /\ remote = [watchlist |-> Absent, currentAccount |-> NULL, sortOption |-> NULL]
  /\ localStore = [watchlist |-> Absent, account |-> AGGREGATE, sort |-> NULL]
  /\ pushes = {}
  /\ nIssued = 0
  /\ lastWl = [id |-> 0, outcome |-> "none"]
  /\ migrated = FALSE
  /\ details = {}
  /\ ticks = {}
  /\ interval = <<>>
  /\ sortOption = 1
  /\ sortLoaded = FALSE
  /\ sortPc = "idle"
  /\ alertBit = FALSE
  /\ TradeIdle

ReadOnlyNext ==
  \/ LoadPreferencesMounted(TRUE)
  \/ \E a \in Accounts : NoModalOpen /\ SwitchAccountMounted(a)
  \/ HandleOpenModal
  \/ CloseModal
  \/ \E fd \in OpsForms : modalOpen /\ HandleUpdatePosition(fd)
  \/ \E c \in tradeCalls : HookUpdateOk(c)
  \/ \E c \in tradeCalls : HookUpdateFail(c)
  \/ \E code \in Funds, confirmed \in BOOLEAN : HandleDeletePosition(code, confirmed)
  \/ \E c \in tradeCalls : HookDeleteOk(c)
  \/ \E c \in tradeCalls : HookDeleteFail(c)
  \/ \E shares \in Holdings : HandleOpenAddModal(shares)
  \/ \E shares \in Holdings : HandleOpenReduceModal(shares)
  \/ CloseTradeModal
  \/ \E amount \in OpsAmounts : HandleAddPosition(amount)
  \/ \E shares \in OpsAmounts : HandleReducePosition(shares, reduceModalPos)
  \/ \E c \in tradeCalls, result \in TradeResults : HookTradeOk(c, result)
  \/ \E c \in tradeCalls : HookTradeFail(c)

SpecReadOnly == ReadOnlyInit /\ [][ReadOnlyNext]_vars

(* C21: while the aggregate is the selected account no step issues an      *)
(* update, delete, add or reduce request.                                  *)
AggregateIsReadOnly ==
  [][currentAccount = AGGREGATE =>
       \A c \in tradeCalls' \ tradeCalls : c.op \notin {"update", "delete", "add", "reduce"}]_vars


(***************************************************************************)
(* The preference load when GET /preferences succeeds.                     *)
(***************************************************************************)
RestoreNext ==
  \/ LoadPreferences(TRUE)
  \/ \E ok \in BOOLEAN : MigrateWatchlistDone(ok)
  \/ \E ok \in BOOLEAN : MigrateAccountDone(ok)
  \/ \E p \in pushes : PushOk(p)
  \/ \E p \in pushes : PushFail(p)

SpecRestore == LoadInit /\ [][RestoreNext]_vars

(* C22: the step of a load that sets the selected account sets it to the   *)
(* remote currentAccount if one is stored, whatever its value; else to the *)
(* user's default account if there is one; else, with nothing in           *)
(* localStorage, to 1.                                                     *)
RestoresPersistedAccount ==
  [][(loadPc.at \in {"get", "migrateWl"} /\ loadPc'.at \in {"done", "migrateAcc"}) =>
       IF remote.currentAccount # NULL THEN currentAccount' = remote.currentAccount
       ELSE IF defaultAccountId # NULL THEN currentAccount' = defaultAccountId
       ELSE localStore.account = NULL => currentAccount' = 1]_vars


(* C23: a step that applies the response of a fetch, of a retry or of a    *)
(* poll to the data leaves the error null.                                 *)
AppliedDataClearsError ==
  [][\A r \in inflight \ inflight' : data' = Payload(r) => error' = NoError]_vars


(***************************************************************************)
(* App.jsx: loadAccounts, called by the mount effect.  The call closes     *)
(* over the first render, so the currentAccount it validates is the        *)
(* initial state, currentUser?.default_account_id || 1.                    *)
(***************************************************************************)
AccountLists == {<<>>, <<1>>, <<MaxAccount>>, <<1, MaxAccount>>}

AccountIds(accs) == {accs[i] : i \in 1..Len(accs)}

(* await getAccounts() resolves to accs ([] when the request failed).      *)
LoadAccounts(accs) ==
  /\ ~accounts.loaded
  /\ accounts' = [loaded |-> TRUE, list |-> accs]
  /\ LET mounted == IF Truthy(defaultAccountId) THEN defaultAccountId ELSE 1
         accountIds == AccountIds(accs)
         acct2 == IF accs # <<>> /\ mounted \notin accountIds /\ mounted # 0
                  THEN IF Truthy(defaultAccountId) /\ defaultAccountId \in accountIds
                       THEN defaultAccountId
                       ELSE accs[1]
                  ELSE currentAccount
     IN Render(FALSE, watchlist, acct2, preferencesLoaded, <<>>)
  /\ UNCHANGED <<fetchVars, tradeFormVars, tradeCalls, lastTrade, formVars, stepVars,
                 displayPositions, sortedPositions, ledger, searchVars, analyzeVars,
                 sortVars, currentView,
                 detailFundId, syncLoading, details, ticks, alertBit, loadPc,
                 defaultAccountId, remote, localStore, migrated>>

AccountsNext ==
  \/ \E ok \in BOOLEAN : LoadPreferences(ok)
  \/ \E ok \in BOOLEAN : MigrateWatchlistDone(ok)
  \/ \E ok \in BOOLEAN : MigrateAccountDone(ok)
  \/ \E accs \in AccountLists : LoadAccounts(accs)
  \/ \E p \in pushes : PushOk(p)
  \/ \E p \in pushes : PushFail(p)

SpecAccounts == LoadInit /\ [][AccountsNext]_vars

(* C24: once loadAccounts and loadPreferences have both completed and the  *)
(* account list is not empty, the selected account is the aggregate or an  *)
(* account of the list.                                                    *)
SelectedAccountValid ==
  (accounts.loaded /\ loadPc.at = "done" /\ accounts.list # <<>>) =>
    (currentAccount = AGGREGATE \/ currentAccount \in AccountIds(accounts.list))


(* C25: a step shows the delete-success notification only if it receives   *)
(* the success response of a delete request; a declined confirmation and   *)
(* a rejected request show no success.                                     *)
DeleteSuccessOnlyAfterDelete ==
  [][notice' = "deleted" => \E c \in Answered : c.op = "delete" /\ answer' = "ok"]_vars


(***************************************************************************)
(* The search box of the list view: typing, the debounce, the searchFunds  *)
(* calls, and the selection of a result.                                   *)
(***************************************************************************)
Queries == {"", "a", "ab"}

SearchBodies == {NoSearchBody, SearchBody(<<>>), SearchBody(<<1>>)}

(* onSubmit of the search form: handleSearch selects the first result.     *)
HandleSearch ==
  /\ searchQuery # ""
  /\ searchResults # <<>>
  /\ HandleSelectFund(searchResults[1])

(* onClick of a row of the results dropdown.                               *)
ClickSearchResult(i) ==
  /\ showSearchResults
  /\ i \in 1..Len(searchResults)
  /\ HandleSelectFund(searchResults[i])

SearchInit ==
  /\ defaultAccountId = NULL
  /\ remote = [watchlist |-> Absent, currentAccount |-> NULL, sortOption |-> NULL]
  /\ localStore = [watchlist |-> Absent, account |-> NULL, sort |-> NULL]
  /\ AppMounted

SearchNext ==
  \/ \E q \in Queries : SetSearchQuery(q)
  \/ SearchFocus
  \/ SearchTick
  \/ \E t \in searchTimers : SearchTimerFires(t)
  \/ \E r \in searches, ok \in BOOLEAN, body \in SearchBodies : SearchResolved(r, ok, body)
  \/ HandleSearch
  \/ \E i \in 1..MaxFund : ClickSearchResult(i)
  \/ \E d \in details, snap \in Snaps : SelectFundResolved(d, snap)
  \/ \E d \in details : SelectFundRejected(d)

SpecSearch == SearchInit /\ [][SearchNext]_vars

(* C26: whenever the query is empty the results are empty and the results  *)
(* dropdown is hidden.                                                     *)
SearchFollowsQuery ==
  searchQuery = "" => (searchResults = <<>> /\ ~showSearchResults)


(* C27: a search request is issued only for the current query, not empty   *)
(* and unchanged for 300 ms; a change of the query leaves no timer but the *)
(* one it sets for the new query, so that at most one timer is pending and *)
(* a burst of changes yields one request, for its last value.              *)
SearchDebounced ==
  [][/\ \A r \in searches' \ searches :
          /\ r.query = searchQuery
          /\ searchQuery # ""
          /\ queryAge = DebounceUnits
     /\ searchQuery' # searchQuery =>
          \A t \in searchTimers' : t.query = searchQuery' /\ t.left = DebounceUnits
     /\ Cardinality(searchTimers') <= 1]_vars

(* The request of a burst is in flight: the timer of the first change was  *)
(* cancelled by the second within 300 ms, the timer of the second has      *)
(* fired.                                                                  *)
BurstSearchedOnce ==
  /\ searches = {[id |-> 2, query |-> "ab"]}
  /\ searchQuery = "ab"
  /\ searchLoading
  /\ searchResults = <<>>
  /\ ~showSearchResults
  /\ watchlist = <<>>
  /\ details = {}


(***************************************************************************)
(* part_004: AiAnalysis.  A timer of the countdown effect is a record with *)
(* the value its callback sets (the countdown of its render minus 1) and   *)
(* the seconds left; the history panel is left closed.                     *)
(***************************************************************************)
CountdownTimer(value) == [to |-> value - 1, left |-> 1]

(* A render after setCountdown(c2) and setCanAnalyze(can2), with the       *)
(* timers that are pending: when the countdown has changed, the cleanup of *)
(* the previous effect (it clears the timer that effect set) and the       *)
(* effect for c2.                                                          *)
CountdownEffect(pending, c2, can2) ==
  IF c2 = countdown
  THEN /\ canAnalyze' = can2
       /\ countdownTimers' = pending
       /\ UNCHANGED countdown
  ELSE LET cleaned == {t \in pending : t.to # countdown - 1}
       IN /\ countdown' = c2
          /\ IF c2 > 0
             THEN /\ countdownTimers' = cleaned \cup {CountdownTimer(c2)}
                  /\ canAnalyze' = can2
             ELSE /\ countdownTimers' = cleaned
                  /\ canAnalyze' = TRUE

(* handleAnalyze without its first line.                                   *)
HandleAnalyzeUnguarded ==
  /\ analyses < MaxAnalyses
  /\ analysisLoading' = TRUE
  /\ analysisError' = FALSE
  /\ analysis' = NULL
  /\ CountdownEffect(countdownTimers, CooldownSeconds, FALSE)
  /\ analyses' = analyses + 1
  /\ cooldownAge' = 0
  /\ UNCHANGED <<currentAccount, fetchVars, appVars, accountPageVars, searchVars>>

(* handleAnalyze up to its await: if (!canAnalyze) return; setLoading,     *)
(* setError(null), setAnalysis(null), setCanAnalyze(false),                *)
(* setCountdown(3), api.post('/ai/analyze_fund').                          *)
HandleAnalyze ==
  /\ canAnalyze
  /\ HandleAnalyzeUnguarded

(* One second passes: no countdown timer is due.                           *)
AnalyzeTick ==
  /\ countdownTimers # {}
  /\ \A t \in countdownTimers : t.left > 0
  /\ countdownTimers' = {[t EXCEPT !.left = t.left - 1] : t \in countdownTimers}
  /\ cooldownAge' = IF cooldownAge < CooldownSeconds THEN cooldownAge + 1 ELSE cooldownAge
  /\ UNCHANGED <<currentAccount, fetchVars, appVars, accountPageVars, searchVars, canAnalyze,
                 countdown, analyses, analysis, analysisLoading, analysisError>>

(* A timer of the countdown effect fires: setCountdown(countdown - 1) with *)
(* the countdown of the render that set it.                                *)
CountdownTimerFires(t) ==
  /\ t \in countdownTimers
  /\ t.left = 0
  /\ CountdownEffect(countdownTimers \ {t}, t.to, canAnalyze)
  /\ UNCHANGED <<currentAccount, fetchVars, appVars, accountPageVars, searchVars, analyses,
                 cooldownAge, analysis, analysisLoading, analysisError>>

(* api.post('/ai/analyze_fund') resolved: setAnalysis(response.data),      *)
(* setLoading(false).                                                      *)
AnalyzeOk(report) ==
  /\ analyses > 0
  /\ analyses' = analyses - 1
  /\ analysis' = report
  /\ analysisLoading' = FALSE
  /\ UNCHANGED <<currentAccount, fetchVars, appVars, accountPageVars, searchVars, canAnalyze,
                 countdown, countdownTimers, cooldownAge, analysisError>>

(* api.post('/ai/analyze_fund') rejected: setError(errorMsg),              *)
(* setLoading(false).                                                      *)
AnalyzeFail ==
  /\ analyses > 0
  /\ analyses' = analyses - 1
  /\ analysisError' = TRUE
  /\ analysisLoading' = FALSE
  /\ UNCHANGED <<currentAccount, fetchVars, appVars, accountPageVars, searchVars, canAnalyze,
                 countdown, countdownTimers, cooldownAge, analysis>>

AnalyzeNext ==
  \/ HandleAnalyze
  \/ AnalyzeTick
  \/ \E t \in countdownTimers : CountdownTimerFires(t)
  \/ \E report \in 1..MaxReport : AnalyzeOk(report)
  \/ AnalyzeFail

AnalyzeInit ==
  /\ currentAccount = 1
  /\ FetchIdle
  /\ AppIdle
  /\ TradeIdle

SpecAnalyze == AnalyzeInit /\ [][AnalyzeNext]_vars

(* C28: handleAnalyze starts a request only with canAnalyze true, the      *)
(* countdown at 0 and three seconds or more after the previous start; the  *)
(* countdown changes only from 0 to 3 in that step and by one down in a    *)
(* step of its timer, a second after the previous change; it stays within  *)
(* 0..3; and canAnalyze is true exactly when the countdown is 0, whatever  *)
(* number of requests is in flight.                                        *)
AnalyzeCooldown ==
  [][/\ analyses' > analyses =>
          /\ canAnalyze /\ countdown = 0 /\ cooldownAge = CooldownSeconds
          /\ ~canAnalyze' /\ countdown' = 3
     /\ (countdown' # countdown /\ analyses' <= analyses) =>
          /\ countdown' = countdown - 1
          /\ cooldownAge = CooldownSeconds - countdown'
     /\ countdown' \in 0..3
     /\ canAnalyze' <=> countdown' = 0]_vars

(* A second request was started after the whole countdown of the first,    *)
(* which has not been answered.                                            *)
AnalyzedAgainAfterCooldown ==
  /\ analyses = 2
  /\ countdown = 3
  /\ ~canAnalyze
  /\ cooldownAge = 0


(* C29: a call that a sync effect issues carries the watchlist or the      *)
(* current account only once loadPreferences has completed, and the sort   *)
(* option only once loadSortPreference has completed.                      *)
NoSyncBeforeLoad ==
  [][\A p \in pushes' :
       (p.id > nIssued /\ ~p.awaited) =>
         /\ p.field \in {"watchlist", "currentAccount"} =>
              (preferencesLoaded' /\ loadPc'.at = "done")
         /\ p.field = "sortOption" => (sortLoaded' /\ sortPc' = "done")]_vars

(* The account and the sort option were changed while both loads were      *)
(* pending, and nothing has been posted.                                   *)
ChangedWhileLoadingUnposted ==
  /\ loadPc.at = "get"
  /\ sortPc = "get"
  /\ currentAccount # 1
  /\ sortOption # 1
  /\ pushes = {}
  /\ nIssued = 0

====
